---- MODULE Spec2Model ----
(***************************************************************************)
(* A model of the quiz engine of djacoo/AI---PRIMO-SEMESTRE:               *)
(*   - the Grounding Index      (src/quizzer-v2/src/utils/pdf_grounding.py)*)
(*   - the Question Generator   (src/quizzer-v2/src/engines/               *)
(*                               question_generator.py)                    *)
(*   - the Grading Engine       (src/quizzer-v2/src/engines/               *)
(*                               grading_engine.py)                        *)
(*   - the lazy QuizzerV2 engine (src/quizzer/src/engines/                 *)
(*                               quizzer_v2_engine.py)                     *)
(* Python strings are sequences of one-character strings, so that lower(), *)
(* strip(), split(), replace() and the substring test are computed.        *)
(***************************************************************************)
EXTENDS Integers, Sequences, FiniteSets, TLC

\* ------------------------------------------------------------------------
\* Python values
\* ------------------------------------------------------------------------

\* A JSON value as the code reads it: a string, a list of strings, any other
\* value (a number), or a key the dict does not hold.
StrV(s) == [kind |-> "str", val |-> s]
ListV(l) == [kind |-> "list", val |-> l]
IntV == [kind |-> "int", val |-> << >>]
AbsentV == [kind |-> "absent", val |-> << >>]

UpperLetters ==
  <<"A","B","C","D","E","F","G","H","I","J","K","L","M",
    "N","O","P","Q","R","S","T","U","V","W","X","Y","Z">>
LowerLetters ==
  <<"a","b","c","d","e","f","g","h","i","j","k","l","m",
    "n","o","p","q","r","s","t","u","v","w","x","y","z">>

\* str.isspace() of one character.
IsSpace(c) == c \in {" ", "\t", "\n"}

\* str.isalpha() of one character.
IsAlpha(c) == \E i \in 1..26 : UpperLetters[i] = c \/ LowerLetters[i] = c

LowerChar(c) ==
  IF \E i \in 1..26 : UpperLetters[i] = c
    THEN LowerLetters[CHOOSE i \in 1..26 : UpperLetters[i] = c]
    ELSE c

UpperChar(c) ==
  IF \E i \in 1..26 : LowerLetters[i] = c
    THEN UpperLetters[CHOOSE i \in 1..26 : LowerLetters[i] = c]
    ELSE c

\* str.lower()
Lower(s) == [i \in 1..Len(s) |-> LowerChar(s[i])]

\* str.upper()
Upper(s) == [i \in 1..Len(s) |-> UpperChar(s[i])]

\* str.strip(): whitespace removed at both ends, kept inside.
Strip(s) ==
  LET keep == {i \in 1..Len(s) : ~IsSpace(s[i])}
  IN  IF keep = {} THEN << >>
      ELSE LET lo == CHOOSE i \in keep : \A k \in keep : i <= k
               hi == CHOOSE i \in keep : \A k \in keep : i >= k
           IN  SubSeq(s, lo, hi)

\* str.replace(c, "") for every c of cs.
RemoveChars(s, cs) == SelectSeq(s, LAMBDA c : c \notin cs)

\* t in s, for strings: t occurs in s as a substring.
IsSubstr(t, s) ==
  \E i \in 0..(Len(s) - Len(t)) : SubSeq(s, i + 1, i + Len(t)) = t

\* str.split(): the maximal runs of non-whitespace characters, in order.
RECURSIVE SplitFrom(_, _, _)
SplitFrom(s, i, word) ==
  IF i > Len(s)
    THEN (IF word = << >> THEN << >> ELSE <<word>>)
    ELSE IF IsSpace(s[i])
      THEN (IF word = << >> THEN << >> ELSE <<word>>) \o SplitFrom(s, i + 1, << >>)
      ELSE SplitFrom(s, i + 1, Append(word, s[i]))

Split(s) == SplitFrom(s, 1, << >>)

Min(a, b) == IF a <= b THEN a ELSE b
Max(a, b) == IF a >= b THEN a ELSE b

RECURSIVE SeqSum(_)
SeqSum(s) == IF s = << >> THEN 0 ELSE Head(s) + SeqSum(Tail(s))

\* ------------------------------------------------------------------------
\* Bounds and program constants
\* ------------------------------------------------------------------------

\* The largest num_questions a generate_questions request asks for.
MaxQuestions == 2

\* The largest cursor the engine model follows (next_question is unbounded).
MaxCursor == 3

\* max_retries of the topic loop.
MaxRetries == 3

\* Attempts for one slot that the model counts before the counter
\* saturates: one more than the retry budget.
AttemptCap == MaxRetries + 1

\* The least length of an accepted prompt.
MinPromptLen == 10

\* The pages of a document that is searched directly.
MaxPages == 3

\* The sentences of a text a quote is extracted from.
MaxSentences == 2

\* The extract_pdf_text calls one thread makes.
MaxCalls == 2

\* The least number of words of a sentence extract_quote returns.
MinQuoteWords == 5

\* The default and the callers' max_words of extract_quote.
DefaultMaxWords == 25

\* ------------------------------------------------------------------------
\* Grounding Index (PDFGroundingEngine)
\* ------------------------------------------------------------------------

Paths == {"a.pdf", "b.pdf"}

TextNLP == <<"N","L","P"," ","i","s",".">>
TextBPE == <<"B","P","E"," ","n","l","p">>
TextOther == <<"x","y">>

TopicNLP == <<"n","l","p">>
TopicBPE == <<"b","p","e">>

\* A document on disk: whether PyPDF2 can read it, and its page -> text map
\* (only the pages whose extract_text() is non-empty).
Doc(readable, pages) == [readable |-> readable, pages |-> pages]

NoPages == << >>

\* The corpora the model is run on: a path -> document map each.
Corpora ==
  { [p \in Paths |-> IF p = "a.pdf" THEN Doc(TRUE, (1 :> TextNLP) @@ (2 :> TextBPE))
                                     ELSE Doc(TRUE, (1 :> TextBPE))],
    [p \in Paths |-> IF p = "a.pdf" THEN Doc(TRUE, (1 :> TextOther))
                                     ELSE Doc(TRUE, (2 :> TextNLP))],
    [p \in Paths |-> IF p = "a.pdf" THEN Doc(TRUE, NoPages)
                                     ELSE Doc(FALSE, (1 :> TextNLP))] }

\* The corpora the engine is run on: one page on the topic, or none readable.
EngineCorpora ==
  { [p \in Paths |-> IF p = "a.pdf" THEN Doc(FALSE, NoPages)
                                     ELSE Doc(TRUE, (2 :> TextNLP))],
    [p \in Paths |-> IF p = "a.pdf" THEN Doc(TRUE, NoPages)
                                     ELSE Doc(FALSE, (1 :> TextNLP))] }

\* pdf_cache = {}: no path parsed yet.
EmptyCache == [p \in Paths |-> [cached |-> FALSE, pages |-> NoPages]]

\* extract_pdf_text: the page map returned for `path` by an index whose
\* cache is `cache`; an unreadable file yields {}.
ExtractPdfText(cache, files, path) ==
  IF cache[path].cached THEN cache[path].pages
  ELSE IF files[path].readable THEN files[path].pages
  ELSE NoPages

\* extract_pdf_text: the cache it leaves; a read failure caches nothing.
CacheAfterExtract(cache, files, path) ==
  IF ~cache[path].cached /\ files[path].readable
    THEN [cache EXCEPT ![path] = [cached |-> TRUE, pages |-> files[path].pages]]
    ELSE cache

\* The page numbers of a page map in dict (insertion = ascending) order.
RECURSIVE SortedPages(_)
SortedPages(S) ==
  IF S = {} THEN << >>
  ELSE LET m == CHOOSE x \in S : \A y \in S : x <= y
       IN  <<m>> \o SortedPages(S \ {m})

\* A score that counts a term repeated in the query once.
PageScoreDistinct(query_terms, text) ==
  LET text_lower == Lower(text)
  IN  Cardinality({query_terms[i] : i \in {k \in 1..Len(query_terms) :
                                             IsSubstr(query_terms[k], text_lower)}})

\* search_content's score of one page: one per query term found in it.
PageScore(query_terms, text) ==
  LET text_lower == Lower(text)
  IN  Cardinality({i \in 1..Len(query_terms) : IsSubstr(query_terms[i], text_lower)})

\* A sort that leaves the list in page order.
SortByScoreNone(results, top) == results

\* list.sort(key=score, reverse=True): stable, highest score first.
RECURSIVE SortByScoreDesc(_, _)
SortByScoreDesc(results, top) ==
  IF top < 0 THEN << >>
  ELSE SelectSeq(results, LAMBDA r : r.score = top) \o SortByScoreDesc(results, top - 1)

\* A search that reports the position of a page in the document instead of
\* its page number.
SearchContentByRank(pages, path, query, max_results) ==
  LET query_terms == Split(Lower(query))
      order == SortedPages(DOMAIN pages)
      all == [i \in 1..Len(order) |->
                [page |-> i, text |-> pages[order[i]],
                 score |-> PageScore(query_terms, pages[order[i]]), path |-> path]]
      results == SelectSeq(all, LAMBDA r : r.score > 0)
      sorted == SortByScoreDesc(results, Len(query_terms))
  IN  SubSeq(sorted, 1, Min(max_results, Len(sorted)))

\* search_content(pdf_path, query, max_results) on the page map `pages`.
SearchContent(pages, path, query, max_results) ==
  LET query_terms == Split(Lower(query))
      order == SortedPages(DOMAIN pages)
      all == [i \in 1..Len(order) |->
                [page |-> order[i], text |-> pages[order[i]],
                 score |-> PageScore(query_terms, pages[order[i]]), path |-> path]]
      results == SelectSeq(all, LAMBDA r : r.score > 0)
      sorted == SortByScoreDesc(results, Len(query_terms))
  IN  SubSeq(sorted, 1, Min(max_results, Len(sorted)))


\* re.sub(r'\s+', ' ', text): every run of whitespace becomes one space
\* (the last character of the run is kept as the space).
CollapseSpaces(s) ==
  LET marked == [i \in 1..Len(s) |->
                   IF ~IsSpace(s[i]) THEN s[i]
                   ELSE IF i < Len(s) /\ IsSpace(s[i + 1]) THEN "" ELSE " "]
  IN  SelectSeq(marked, LAMBDA c : c # "")

\* str.split() of a long text: the maximal runs of non-whitespace
\* characters, in order, found by their first and last positions.
SplitWords(s) ==
  LET positions == [i \in 1..Len(s) |-> i]
      starts == SelectSeq(positions,
                          LAMBDA i : ~IsSpace(s[i]) /\ (i = 1 \/ IsSpace(s[i - 1])))
      ends == SelectSeq(positions,
                        LAMBDA i : ~IsSpace(s[i]) /\ (i = Len(s) \/ IsSpace(s[i + 1])))
  IN  [k \in 1..Len(starts) |-> SubSeq(s, starts[k], ends[k])]

SentenceEnds == {".", "!", "?"}

\* The first position from i on that holds no whitespace.
RECURSIVE SkipSpaces(_, _)
SkipSpaces(s, i) == IF i <= Len(s) /\ IsSpace(s[i]) THEN SkipSpaces(s, i + 1) ELSE i

\* re.split(r'[.!?]\s+', s): the pieces between the matches; a match is an
\* end mark with whitespace behind it and takes the mark and all of that
\* whitespace.
SplitSentences(s) ==
  LET marks == SelectSeq([i \in 1..Len(s) |-> i],
                         LAMBDA i : s[i] \in SentenceEnds /\ i < Len(s) /\ IsSpace(s[i + 1]))
  IN  [k \in 1..(Len(marks) + 1) |->
         SubSeq(s, IF k = 1 THEN 1 ELSE SkipSpaces(s, marks[k - 1] + 1),
                   IF k <= Len(marks) THEN marks[k] - 1 ELSE Len(s))]

\* ' '.join(words)
RECURSIVE JoinSpace(_)
JoinSpace(l) ==
  IF l = << >> THEN << >>
  ELSE IF Len(l) = 1 THEN l[1]
  ELSE l[1] \o <<" ">> \o JoinSpace(Tail(l))

Ellipsis == <<".", ".", ".">>

\* An extract_quote whose fallback returns the whole text.
ExtractQuoteUntruncated(text, max_words) ==
  LET clean == Strip(CollapseSpaces(text))
      sentences == SplitSentences(clean)
      fits == {i \in 1..Len(sentences) :
                 /\ MinQuoteWords <= Len(SplitWords(sentences[i]))
                 /\ Len(SplitWords(sentences[i])) <= max_words}
  IN  IF fits # {}
        THEN Strip(sentences[CHOOSE i \in fits : \A k \in fits : i <= k])
        ELSE JoinSpace(SplitWords(clean)) \o Ellipsis

\* extract_quote(text, max_words), for max_words >= 0: the first sentence
\* the loop meets with MinQuoteWords..max_words words, else the first
\* max_words words and "...".
ExtractQuote(text, max_words) ==
  LET clean == Strip(CollapseSpaces(text))
      sentences == SplitSentences(clean)
      fits == {i \in 1..Len(sentences) :
                 /\ MinQuoteWords <= Len(SplitWords(sentences[i]))
                 /\ Len(SplitWords(sentences[i])) <= max_words}
      words == SplitWords(clean)
  IN  IF fits # {}
        THEN Strip(sentences[CHOOSE i \in fits : \A k \in fits : i <= k])
        ELSE JoinSpace(SubSeq(words, 1, Min(max_words, Len(words)))) \o Ellipsis


\* ------------------------------------------------------------------------
\* Question Generator: one oracle item -> one question
\* ------------------------------------------------------------------------

TopicGeneral == <<"g","e","n","e","r","a","l">>

\* What ai.generate_json gives for one question request: it raises, returns
\* None (or {}), an {"error": ...} record, {"items": [item, ...]},
\* {"items": []}, {"items": item}, the item itself, or an unrelated dict.
GenResponse(shape, type, question, answer, choices, tags) ==
  [shape |-> shape, type |-> type, question |-> question, answer |-> answer,
   choices |-> choices, tags |-> tags]

\* The item's fields all missing: the empty dict.
IsEmptyItem(r) ==
  /\ r.type = "absent" /\ r.question.kind = "absent" /\ r.answer.kind = "absent"
  /\ r.choices.kind = "absent" /\ r.tags.kind = "absent"

\* Whether _generate_single_question gets an item out of the response.
HasItem(r) ==
  /\ r.shape \in {"items_list", "items_dict", "direct"}
  /\ (r.shape = "direct" => (r.question.kind # "absent" \/ r.type # "absent"))
  /\ ~IsEmptyItem(r)

\* type_map.get(item.get("type", "short"), "short_answer")
InternalType(item_type) ==
  IF item_type \in {"mcq", "true_false"} THEN "mcq_single" ELSE "short_answer"

\* _type_matches(requested_type, generated_type)
TypeMatches(requested_type, generated_type) ==
  \/ requested_type \in {"mcq_single", "mcq_multi"} /\ generated_type = "mcq_single"
  \/ requested_type = "short_answer" /\ generated_type = "short_answer"
  \/ requested_type \in {"derivation", "proof", "code"} /\ generated_type = "short_answer"

\* int(max_points * 0.7)
ConceptPoints(max_points) == (max_points * 7) \div 10

\* A rubric whose last criterion is a fixed share, the points left by the
\* concept share, whatever the concept criteria add up to.
GenerateRubricFixedShare(max_points, n_concepts) ==
  LET n == IF n_concepts = 0 THEN 1 ELSE n_concepts
      points_per_concept == ConceptPoints(max_points) \div n
      rubric == [i \in 1..n |-> points_per_concept]
  IN  Append(rubric, max_points - ConceptPoints(max_points))

\* _generate_rubric: the point weights of the criteria, the completeness
\* criterion last.
GenerateRubric(max_points, n_concepts) ==
  LET n == IF n_concepts = 0 THEN 1 ELSE n_concepts
      points_per_concept == ConceptPoints(max_points) \div n
      rubric == [i \in 1..n |-> points_per_concept]
  IN  Append(rubric, max_points - SeqSum(rubric))

\* ", ".join(answer)
RECURSIVE JoinComma(_)
JoinComma(l) ==
  IF l = << >> THEN << >>
  ELSE IF Len(l) = 1 THEN l[1]
  ELSE l[1] \o <<",", " ">> \o JoinComma(Tail(l))

NoQuestion == [ok |-> FALSE]

\* The question dict built from an item (lines 243-286). Every type carries
\* the same fields here; "options"/"correct" are read for choice types only,
\* "canonical_answer"/"point_breakdown" for open types only.
BuildQuestion(r, question_id, page, path, max_points) ==
  LET internal_type == InternalType(r.type)
      mcq == internal_type = "mcq_single"
  IN  [ok |-> TRUE,
       q |-> [id |-> question_id,
              type |-> internal_type,
              prompt |-> IF r.question.kind = "absent" THEN StrV(<< >>) ELSE r.question,
              grounding |-> <<[path |-> path, page |-> page]>>,
              options |-> IF mcq /\ r.choices.kind = "list" THEN r.choices.val ELSE << >>,
              answer_key |->
                [correct |-> IF ~mcq THEN ListV(<< >>)
                             ELSE IF r.answer.kind = "str" THEN ListV(<<r.answer.val>>)
                             ELSE IF r.answer.kind = "absent" THEN ListV(<< << >> >>)
                             ELSE r.answer,
                 canonical_answer |->
                   IF mcq THEN << >>
                   ELSE IF r.answer.kind = "list" THEN JoinComma(r.answer.val)
                   ELSE r.answer.val,
                 point_breakdown |->
                   IF mcq THEN << >>
                   ELSE GenerateRubric(max_points,
                          IF r.tags.kind = "absent" THEN 1 ELSE Len(r.tags.val)),
                 max_points |-> max_points]]]

\* _generate_single_question: None when the call raises, the response holds
\* no item, the mapped type is not accepted for the requested one, or
\* building the question raises (a non-string, non-list answer or tag list
\* of an open question).
GenerateSingleQuestion(r, qtype, question_id, page, path, max_points) ==
  IF ~HasItem(r) THEN NoQuestion
  ELSE IF ~TypeMatches(qtype, InternalType(r.type)) THEN NoQuestion
  ELSE IF InternalType(r.type) = "short_answer"
          /\ (r.answer.kind = "int" \/ r.tags.kind = "int") THEN NoQuestion
  ELSE BuildQuestion(r, question_id, page, path, max_points)

\* question["prompt"].lower().strip()
NormPrompt(prompt) == Strip(Lower(prompt))

\* A validation that forgets the seen set.
IsValidQuestionNoDedup(question, seen) ==
  LET prompt == NormPrompt(question.prompt.val)
  IN  /\ prompt # << >>
      /\ Len(prompt) >= MinPromptLen

\* _is_valid_question
IsValidQuestion(question, seen) ==
  LET prompt == NormPrompt(question.prompt.val)
  IN  /\ prompt # << >>
      /\ prompt \notin seen
      /\ Len(prompt) >= MinPromptLen


\* ------------------------------------------------------------------------
\* State
\* ------------------------------------------------------------------------

VARIABLES
  pdf_files,        \* the documents on disk (never written)
  gen_cache,        \* question_gen.grounding.pdf_cache
  gen_pc,           \* where the generate_questions run stands
  gen_req,          \* the request of the run
  gen_loop,         \* the run's loop variables: i, k (note path), j, attempt,
                    \* num_to_gen, section, qtype
  questions,        \* the run's questions list
  seen_questions,   \* the run's seen_questions set
  asked,            \* per emitted question: the qtype and topic it was asked for
  slot_attempts     \* consecutive passes of the loop the run is in that
                    \* accepted no question: reset when a slot begins, when
                    \* a question is accepted and when the while loop is
                    \* entered (saturating at AttemptCap)

genVars ==
  <<gen_cache, gen_pc, gen_req, gen_loop, questions, seen_questions, asked,
    slot_attempts>>

VARIABLES
  eng_pc,                 \* the engine call in progress, or "idle"
  current_quiz,           \* self.current_quiz ([set |-> FALSE] models None)
  current_question_idx,   \* self.current_question_idx
  quiz_request,           \* self.quiz_request
  generated_questions,    \* self.generated_questions
  current_user_id,        \* self.current_user_id (0 models None)
  current_session_id,     \* self.current_session_id (0 models None)
  session_total_points,   \* self.session_total_points
  session_max_points,     \* self.session_max_points
  user_db,                \* the user manager's quiz_sessions and attempts
  grader_cache,           \* grader.grounding.pdf_cache
  last_result             \* what the last engine call returned

engVars ==
  <<eng_pc, current_quiz, current_question_idx, quiz_request, generated_questions,
    current_user_id, current_session_id, session_total_points, session_max_points,
    user_db, grader_cache, last_result>>

VARIABLES
  sub_question,     \* a grading submission: the question,
  sub_answer,       \* the answer string,
  sub_response,     \* what the oracle will give,
  sub_result,       \* the result of grade_answer once it has run,
  sub_calls         \* and the number of oracle calls it made

subVars == <<sub_question, sub_answer, sub_response, sub_result, sub_calls>>

VARIABLES
  pdf_cache,        \* grounding.pdf_cache of the index that is called directly
  idx_input,        \* a call of search_content or extract_quote: its arguments,
  idx_output        \* and what it returned

idxVars == <<pdf_cache, idx_input, idx_output>>

VARIABLES
  sys_stderr,       \* the stream sys.stderr is bound to
  closed_streams,   \* the streams that have been closed
  thr_pc,           \* per thread: where its extract_pdf_text call stands
  original_stderr,  \* per thread: the local original_stderr of the call
  thr_calls         \* per thread: the extract_pdf_text calls it has begun

thrVars == <<sys_stderr, closed_streams, thr_pc, original_stderr, thr_calls>>

vars == <<pdf_files, genVars, engVars, subVars, idxVars, thrVars>>

\* ------------------------------------------------------------------------
\* Question Generator: generate_questions as a step machine
\* ------------------------------------------------------------------------

NotePaths == <<"a.pdf", "b.pdf">>

Prompt1 == <<"W","h","a","t"," ","i","s"," ","N","L","P","?">>
Prompt1Variant == <<" ","w","h","a","t"," ","i","s"," ","n","l","p","?"," ">>
Prompt2 == <<"D","e","f","i","n","e"," ","B","P","E",".">>
PromptPadded == <<" ","D","e","f","i","n","e"," ","i","t"," ">>
PromptShort == <<"W","h","y","?">>
PromptBlank == <<" "," ">>

AnswerB == <<"B">>
ChoicesABCD == <<<<"A",":","x">>, <<"B",":","y">>, <<"C",":","z">>, <<"D",":","w">>>>

\* The responses the generation oracle may give in a generate_questions run.
GenResponses ==
  { GenResponse(sh, "absent", AbsentV, AbsentV, AbsentV, AbsentV) :
      sh \in {"raise", "none", "error", "items_empty", "unrelated", "items_dict"} }
  \cup
  { GenResponse("items_list", "short", qu, StrV(AnswerB), AbsentV, AbsentV) :
      qu \in {AbsentV, IntV, StrV(PromptShort), StrV(PromptBlank), StrV(PromptPadded),
              StrV(Prompt1), StrV(Prompt1Variant), StrV(Prompt2)} }
  \cup
  { GenResponse("items_list", "mcq", qu, StrV(AnswerB), ListV(ChoicesABCD), AbsentV) :
      qu \in {IntV, StrV(Prompt1), StrV(Prompt1Variant), StrV(Prompt2)} }
  \cup
  { GenResponse("items_list", ty, StrV(Prompt1), StrV(AnswerB), ListV(ChoicesABCD), AbsentV) :
      ty \in {"true_false", "essay", "absent"} }
  \cup
  { GenResponse("direct", "absent", StrV(Prompt2), StrV(AnswerB), AbsentV, AbsentV),
    GenResponse("direct", "mcq", AbsentV, StrV(AnswerB), ListV(ChoicesABCD), AbsentV),
    GenResponse("items_dict", "true_false", StrV(Prompt1), StrV(AnswerB), AbsentV, AbsentV) }

NoSection == [page |-> 0, text |-> << >>, score |-> 0, path |-> "a.pdf"]

LoopStart ==
  [i |-> 1, k |-> 1, j |-> 0, attempt |-> 0, num_to_gen |-> 0,
   section |-> NoSection, qtype |-> "short_answer"]

\* questions_per_topic = num_questions // len(topics) if topics else num_questions
QuestionsPerTopic(req) ==
  IF Len(req.topics) > 0 THEN req.num_questions \div Len(req.topics)
  ELSE req.num_questions

\* The sections search_content finds for topic i in note path k.
Sections(req, files, cache, i, k) ==
  SearchContent(ExtractPdfText(cache, files, NotePaths[k]), NotePaths[k],
                req.topics[i], 3)

\* The loop variables at the head of the next (topic, note path) iteration.
NextPath(loop) ==
  IF loop.k < Len(NotePaths)
    THEN [loop EXCEPT !.k = loop.k + 1, !.j = 0, !.attempt = 0]
    ELSE [loop EXCEPT !.i = loop.i + 1, !.k = 1, !.j = 0, !.attempt = 0]

CountAttempt(n) == Min(n + 1, AttemptCap)

\* "for i, topic in enumerate(topics): for note_path in note_paths:
\*    sections = search_content(...)" up to the head of the j loop.
TopicSearch ==
  /\ gen_pc = "topic_loop"
  /\ IF gen_loop.i > Len(gen_req.topics)
       THEN /\ gen_pc' = "fallback"
            /\ UNCHANGED <<gen_cache, gen_loop>>
       ELSE LET sections == Sections(gen_req, pdf_files, gen_cache, gen_loop.i, gen_loop.k)
                num_to_gen == Min(QuestionsPerTopic(gen_req),
                                  gen_req.num_questions - Len(questions))
            IN  /\ gen_cache' = CacheAfterExtract(gen_cache, pdf_files, NotePaths[gen_loop.k])
                /\ IF sections # << >> /\ num_to_gen > 0
                     THEN /\ gen_pc' = "slot"
                          /\ gen_loop' = [gen_loop EXCEPT !.j = 0, !.num_to_gen = num_to_gen]
                     ELSE IF Len(questions) >= gen_req.num_questions
                       THEN /\ gen_pc' = "fallback"
                            /\ UNCHANGED gen_loop
                       ELSE /\ gen_pc' = "topic_loop"
                            /\ gen_loop' = NextPath(gen_loop)
  /\ slot_attempts' = IF gen_pc' = "fallback" THEN 0 ELSE slot_attempts
  /\ UNCHANGED <<pdf_files, gen_req, questions, seen_questions, asked>>
  /\ UNCHANGED <<engVars, subVars, idxVars, thrVars>>

\* "section = random.choice(sections); qtype = random.choice(question_types)"
BeginSlot ==
  /\ gen_pc = "slot"
  /\ LET sections == Sections(gen_req, pdf_files, gen_cache, gen_loop.i, gen_loop.k)
     IN  \E s \in 1..Len(sections), qtype \in gen_req.question_types :
           gen_loop' = [gen_loop EXCEPT !.section = sections[s], !.qtype = qtype,
                                        !.attempt = 0]
  /\ gen_pc' = "attempt"
  /\ slot_attempts' = 0
  /\ UNCHANGED <<pdf_files, gen_cache, gen_req, questions, seen_questions, asked>>
  /\ UNCHANGED <<engVars, subVars, idxVars, thrVars>>

\* The loop position after slot j is left, with `len` questions accepted.
AfterSlot(loop, req, len) ==
  IF len >= req.num_questions THEN [pc |-> "fallback", loop |-> loop]
  ELSE IF loop.j + 1 < loop.num_to_gen
    THEN [pc |-> "slot", loop |-> [loop EXCEPT !.j = loop.j + 1, !.attempt = 0]]
  ELSE [pc |-> "topic_loop", loop |-> NextPath(loop)]

\* One pass of "for attempt in range(max_retries)": one oracle call, the
\* validation, and the loop control that follows it.
TopicAttempt(responses) ==
  /\ gen_pc = "attempt"
  /\ \E r \in responses :
       LET topic == gen_req.topics[gen_loop.i]
           res == GenerateSingleQuestion(r, gen_loop.qtype, Len(questions) + 1,
                                         gen_loop.section.page, NotePaths[gen_loop.k],
                                         gen_req.max_points)
           accepted == res.ok /\ res.q.prompt.kind = "str"
                       /\ IsValidQuestion(res.q, seen_questions)
       IN  /\ IF res.ok /\ res.q.prompt.kind # "str"
                THEN \* .lower() of a prompt that is no string raises
                     /\ gen_pc' = "raised"
                     /\ UNCHANGED <<gen_loop, questions, seen_questions, asked>>
                ELSE IF res.ok /\ IsValidQuestion(res.q, seen_questions)
                  THEN LET nxt == AfterSlot(gen_loop, gen_req, Len(questions) + 1)
                       IN  /\ questions' = Append(questions, res.q)
                           /\ seen_questions' = seen_questions \cup {NormPrompt(res.q.prompt.val)}
                           /\ asked' = Append(asked, [qtype |-> gen_loop.qtype, topic |-> topic,
                                                      phase |-> "topic"])
                           /\ gen_pc' = nxt.pc
                           /\ gen_loop' = nxt.loop
                  ELSE /\ UNCHANGED <<questions, seen_questions, asked>>
                       /\ IF gen_loop.attempt + 1 < MaxRetries
                            THEN /\ gen_pc' = "attempt"
                                 /\ gen_loop' = [gen_loop EXCEPT !.attempt = gen_loop.attempt + 1]
                            ELSE LET nxt == AfterSlot(gen_loop, gen_req, Len(questions))
                                 IN  /\ gen_pc' = nxt.pc
                                     /\ gen_loop' = nxt.loop
           /\ slot_attempts' = IF accepted \/ gen_pc' = "fallback" THEN 0
                               ELSE CountAttempt(slot_attempts)
  /\ UNCHANGED <<pdf_files, gen_cache, gen_req>>
  /\ UNCHANGED <<engVars, subVars, idxVars, thrVars>>

\* One pass of "while len(questions) < num_questions and note_paths".
FallbackAttempt(responses) ==
  /\ gen_pc = "fallback"
  /\ Len(questions) < gen_req.num_questions
  /\ \E k \in 1..Len(NotePaths) :
       LET note_path == NotePaths[k]
           pages == ExtractPdfText(gen_cache, pdf_files, note_path)
       IN  /\ gen_cache' = CacheAfterExtract(gen_cache, pdf_files, note_path)
           /\ IF DOMAIN pages = {}
                THEN /\ slot_attempts' = CountAttempt(slot_attempts)
                     /\ UNCHANGED <<gen_pc, questions, seen_questions, asked>>
                ELSE \E page_num \in DOMAIN pages, qtype \in gen_req.question_types,
                        r \in responses :
                       LET topic == IF Len(gen_req.topics) > 0 THEN gen_req.topics[1]
                                    ELSE TopicGeneral
                           res == GenerateSingleQuestion(r, qtype, Len(questions) + 1,
                                                         page_num, note_path,
                                                         gen_req.max_points)
                       IN  IF res.ok /\ res.q.prompt.kind # "str"
                             THEN /\ gen_pc' = "raised"
                                  /\ slot_attempts' = CountAttempt(slot_attempts)
                                  /\ UNCHANGED <<questions, seen_questions, asked>>
                             ELSE IF res.ok /\ IsValidQuestion(res.q, seen_questions)
                               THEN /\ questions' = Append(questions, res.q)
                                    /\ slot_attempts' = 0
                                    /\ seen_questions' =
                                         seen_questions \cup {NormPrompt(res.q.prompt.val)}
                                    /\ asked' = Append(asked, [qtype |-> qtype, topic |-> topic,
                                                               phase |-> "fallback"])
                                    /\ UNCHANGED gen_pc
                               ELSE /\ slot_attempts' = CountAttempt(slot_attempts)
                                    /\ UNCHANGED <<gen_pc, questions, seen_questions, asked>>
  /\ UNCHANGED <<pdf_files, gen_req, gen_loop>>
  /\ UNCHANGED <<engVars, subVars, idxVars, thrVars>>

\* A generic loop that may be left with any number of questions.
FinishRunAnyCount ==
  /\ gen_pc = "fallback"
  /\ gen_pc' = "done"
  /\ UNCHANGED <<pdf_files, gen_cache, gen_req, gen_loop, questions, seen_questions,
                 asked, slot_attempts>>
  /\ UNCHANGED <<engVars, subVars, idxVars, thrVars>>

\* The while loop's exit and "return response".
FinishRun ==
  /\ gen_pc = "fallback"
  /\ Len(questions) >= gen_req.num_questions
  /\ gen_pc' = "done"
  /\ UNCHANGED <<pdf_files, gen_cache, gen_req, gen_loop, questions, seen_questions,
                 asked, slot_attempts>>
  /\ UNCHANGED <<engVars, subVars, idxVars, thrVars>>

\* The requests generate_questions is run on.
GenRequests ==
  { [num_questions |-> n, topics |-> ts, question_types |-> qts, max_points |-> 10] :
      n \in 1..MaxQuestions,
      ts \in {<<TopicNLP>>, <<TopicNLP, TopicBPE>>, << >>},
      qts \in {{"mcq_single", "short_answer"}, {"mcq_multi", "derivation"}} }

\* ------------------------------------------------------------------------
\* Grading Engine
\* ------------------------------------------------------------------------

\* What ai.generate_json gives for one grading request. score is in tenths;
\* a field may be missing or hold a value of the wrong type.
GradeResponse(shape, score, verdict) ==
  [shape |-> shape, score |-> score, verdict |-> verdict]

NumV(n) == [kind |-> "num", val |-> n]
NoNum == [kind |-> "absent", val |-> 0]
BadNum == [kind |-> "str", val |-> 0]

\* A Grading, or the exception that grade_answer let out. `via` names the
\* scorer that built it.
Grading(via, points_awarded, points_possible, decision, checks, guards) ==
  [kind |-> "grading", via |-> via, points_awarded |-> points_awarded,
   points_possible |-> points_possible, decision |-> decision, checks |-> checks,
   false_positive_guard |-> guards, false_negative_guard |-> guards]

Raised ==
  [kind |-> "raised", via |-> "none", points_awarded |-> 0, points_possible |-> 0,
   decision |-> "none", checks |-> << >>, false_positive_guard |-> FALSE,
   false_negative_guard |-> FALSE]

\* c.strip().upper()[0] if c else "": the normalized letter of one correct
\* option; undefined (IndexError) for a whitespace-only option.
CorrectChoiceRaises(c) == c # << >> /\ Strip(c) = << >>
CorrectChoice(c) == IF c = << >> THEN << >> ELSE <<Upper(Strip(c))[1]>>

\* A normalization that looks for the first letter of the answer.
UserChoiceFirstAlpha(user_answer) ==
  LET u == SelectSeq(Upper(user_answer), IsAlpha)
  IN  IF Len(u) > 1 THEN <<u[1]>> ELSE u

\* user_answer.strip().upper(), cut to its first character
UserChoice(user_answer) ==
  LET u == Upper(Strip(user_answer))
  IN  IF Len(u) > 1 THEN <<u[1]>> ELSE u

\* _grade_mcq_single
GradeMcqSingle(question, user_answer) ==
  LET correct == question.answer_key.correct
      max_points == question.answer_key.max_points
  IN  IF correct.kind # "list" THEN Raised \* iterating a non-list
      ELSE IF \E i \in 1..Len(correct.val) : CorrectChoiceRaises(correct.val[i]) THEN Raised
      ELSE IF correct.val = << >> THEN Raised \* correct_choices[0]
      ELSE LET correct_choices == {CorrectChoice(correct.val[i]) : i \in 1..Len(correct.val)}
               is_correct == UserChoice(user_answer) \in correct_choices
           IN  Grading("mcq_single", IF is_correct THEN max_points ELSE 0, max_points,
                       IF is_correct THEN "correct" ELSE "incorrect", <<is_correct>>, TRUE)

\* The option letters of a comma-separated answer: the first character of
\* each piece when it is a letter.
RECURSIVE SplitComma(_, _, _)
SplitComma(s, i, piece) ==
  IF i > Len(s) THEN <<piece>>
  ELSE IF s[i] = "," THEN <<piece>> \o SplitComma(s, i + 1, << >>)
  ELSE SplitComma(s, i + 1, Append(piece, s[i]))

UserChoices(user_answer) ==
  LET pieces == SplitComma(RemoveChars(Upper(user_answer), {" "}), 1, << >>)
  IN  {pieces[i][1] : i \in {k \in 1..Len(pieces) : pieces[k] # << >> /\ IsAlpha(pieces[k][1])}}

\* round(): to the nearest integer, a tie to the even one; num/den >= 0.
RoundHalfEven(num, den) ==
  LET q == num \div den
      r == num % den
  IN  IF 2 * r < den THEN q
      ELSE IF 2 * r > den THEN q + 1
      ELSE IF q % 2 = 0 THEN q ELSE q + 1

\* The option letters _grade_mcq_multi counts (lines 112-133): how many of
\* the correct and of the incorrect ones the answer names, and how many of
\* each there are.
ChoiceCounts(question, user_answer) ==
  LET correct == question.answer_key.correct
      user_choices == UserChoices(user_answer)
      correct_choices == {CorrectChoice(correct.val[i])[1] :
                            i \in {k \in 1..Len(correct.val) : correct.val[k] # << >>}}
      all_options == {UpperChar(question.options[i][1]) :
                        i \in {k \in 1..Len(question.options) :
                                 /\ question.options[k] # << >>
                                 /\ IsAlpha(question.options[k][1])}}
      incorrect_choices == all_options \ correct_choices
  IN  [correct_chosen |-> Cardinality(user_choices \cap correct_choices),
       incorrect_chosen |-> Cardinality(user_choices \cap incorrect_choices),
       nc |-> Cardinality(correct_choices),
       ni |-> Cardinality(incorrect_choices)]

\* ratio_correct - ratio_incorrect is a subtraction of two doubles. Its
\* result is the double nearest to the exact difference (0), the next one
\* above (1) or the next one below (-1): with up to five option letters a
\* penalty in thirds leaves it above (1/2 - 1/3 = 0.16666666666666669), a
\* penalized score in thirds below (2/3 - 1/2 = 0.16666666666666663).
FloatDev(counts) ==
  IF counts.ni = 3 /\ counts.incorrect_chosen \in {1, 2} THEN 1
  ELSE IF counts.nc = 3 /\ counts.correct_chosen \in {1, 2} /\ counts.incorrect_chosen > 0
  THEN -1
  ELSE 0

\* A score ratio without the clamp of line 141.
ScoreRatioUnclamped(counts) ==
  LET nc == counts.nc
      ni == counts.ni
      den == IF nc = 0 THEN 1 ELSE IF ni = 0 THEN nc ELSE nc * ni
      raw == IF nc = 0 THEN 0
             ELSE IF ni = 0 THEN counts.correct_chosen
             ELSE counts.correct_chosen * ni - counts.incorrect_chosen * nc
  IN  [num |-> raw, den |-> den, dev |-> IF nc = 0 THEN 0 ELSE FloatDev(counts)]

\* score_ratio (lines 135-141): the double nearest to num/den, moved by dev.
ScoreRatio(counts) ==
  LET nc == counts.nc
      ni == counts.ni
      den == IF nc = 0 THEN 1 ELSE IF ni = 0 THEN nc ELSE nc * ni
      raw == IF nc = 0 THEN 0
             ELSE IF ni = 0 THEN counts.correct_chosen
             ELSE counts.correct_chosen * ni - counts.incorrect_chosen * nc
  IN  [num |-> Max(0, Min(den, raw)), den |-> den,
       dev |-> IF 0 < raw /\ raw < den THEN FloatDev(counts) ELSE 0]

\* score_ratio >= a/10 for the literals 0.9 and 0.4, themselves the doubles
\* nearest to 9/10 and 4/10
RatioAtLeast(ratio, a) ==
  \/ 10 * ratio.num > a * ratio.den
  \/ 10 * ratio.num = a * ratio.den /\ ratio.dev >= 0

\* round(score_ratio * max_points): a product that would be half-way for the
\* nearest double falls on the side score_ratio is moved to
\* (1.4999999999999996, 1.5000000000000002 for nine points).
RoundPoints(ratio, max_points) ==
  LET p == ratio.num * max_points
  IN  IF ratio.dev # 0 /\ 2 * (p % ratio.den) = ratio.den
      THEN (p \div ratio.den) + (IF ratio.dev > 0 THEN 1 ELSE 0)
      ELSE RoundHalfEven(p, ratio.den)

\* _grade_mcq_multi
GradeMcqMulti(question, user_answer) ==
  LET correct == question.answer_key.correct
      max_points == question.answer_key.max_points
  IN  IF correct.kind # "list" THEN Raised
      ELSE IF \E i \in 1..Len(correct.val) : CorrectChoiceRaises(correct.val[i]) THEN Raised
      ELSE
        LET counts == ChoiceCounts(question, user_answer)
            score_ratio == ScoreRatio(counts)
            points == RoundPoints(score_ratio, max_points)
            decision == IF RatioAtLeast(score_ratio, 9) THEN "correct"
                        ELSE IF RatioAtLeast(score_ratio, 4) THEN "partially_correct"
                        ELSE "incorrect"
        IN  Grading("mcq_multi", points, max_points, decision,
                    <<counts.correct_chosen = counts.nc, counts.incorrect_chosen = 0>>, TRUE)

\* _fallback_grading
FallbackGrading(user_answer, canonical) ==
  LET answer_lower == Lower(user_answer)
      words == Split(Lower(canonical))
      key_terms == SelectSeq(words, LAMBDA w : Len(w) > 4)
      matches == Cardinality({i \in 1..Len(key_terms) : IsSubstr(key_terms[i], answer_lower)})
      n == Len(key_terms)
      points == IF n = 0 THEN 0 ELSE (matches * 10) \div n
      decision == IF n > 0 /\ 10 * matches >= 9 * n THEN "correct"
                  ELSE IF n > 0 /\ 10 * matches >= 4 * n THEN "partially_correct"
                  ELSE "incorrect"
  IN  Grading("fallback", points, 10, decision, <<n > 0 /\ 10 * matches >= 7 * n>>, FALSE)

\* user_answer.strip().replace(".", "").replace(",", "").replace("!", "")
\*            .replace("?", "").strip()
UserAnswerClean(user_answer) ==
  Strip(RemoveChars(Strip(user_answer), {".", ",", "!", "?"}))

\* A conversion that rounds to the nearest integer, halves up.
RoundTenths(n) == (n + 5) \div 10

\* int(x) of tenths * max_points / 10: truncation toward zero
TruncTenths(n) == IF n >= 0 THEN n \div 10 ELSE -((-n) \div 10)

VerdictMap(verdict) ==
  CASE verdict \in {"exact", "semantically_correct"} -> "correct"
    [] verdict = "partially_correct" -> "partially_correct"
    [] OTHER -> "incorrect"

\* Whether the try block of _grade_open_ended leaves through "except":
\* the call raises, the response is no dict, the score cannot be multiplied
\* and truncated, or the verdict has no replace().
OracleGradingRaises(r, too_short) ==
  \/ r.shape \in {"raise", "list"}
  \/ r.shape = "dict" /\ r.score.kind = "str"
  \/ r.shape = "dict" /\ r.verdict = "not_a_string" /\ ~too_short

\* _grade_open_ended
GradeOpenEnded(question, user_answer, r) ==
  LET canonical == question.answer_key.canonical_answer
      point_breakdown == question.answer_key.point_breakdown
      too_short == Len(UserAnswerClean(user_answer)) < 5
  IN  IF r.shape \in {"none", "empty", "error"} THEN FallbackGrading(user_answer, canonical)
      ELSE IF OracleGradingRaises(r, too_short) THEN FallbackGrading(user_answer, canonical)
      ELSE
        LET score0 == IF r.score.kind = "absent" THEN 0 ELSE r.score.val
            verdict0 == IF r.verdict = "absent" THEN "incorrect" ELSE r.verdict
            max_points == IF point_breakdown # << >> THEN SeqSum(point_breakdown) ELSE 10
            points_awarded == IF too_short THEN 0 ELSE TruncTenths(score0 * max_points)
            score == IF too_short THEN 0 ELSE score0
            verdict == IF too_short THEN "incorrect" ELSE verdict0
        IN  Grading("oracle", points_awarded, max_points, VerdictMap(verdict),
                    [i \in 1..Len(point_breakdown) |-> score >= 7], TRUE)

\* The calls of ai.generate_json one grade_answer makes: the one of line 233
\* for an open question; the choice scorers and the fallback make none.
OracleCalls(question) ==
  IF question.type \in {"mcq_single", "mcq_multi"} THEN 0 ELSE 1

\* GradingEngine.grade_answer
GradeAnswer(question, user_answer, r) ==
  IF question.type = "mcq_single" THEN GradeMcqSingle(question, user_answer)
  ELSE IF question.type = "mcq_multi" THEN GradeMcqMulti(question, user_answer)
  ELSE GradeOpenEnded(question, user_answer, r)


\* ------------------------------------------------------------------------
\* QuizzerV2: the lazy engine
\* ------------------------------------------------------------------------

\* The largest number of quiz sessions and of graded attempts the user
\* manager records in one run of the model.
MaxSessions == 2
MaxAttempts == 1

NoQuiz == [set |-> FALSE, questions |-> << >>, question_count |-> 0]
NoRequest ==
  [set |-> FALSE,
   req |-> [num_questions |-> 0, topics |-> << >>, question_types |-> {}, max_points |-> 0]]

\* What an engine call returned; arg is the question_id it was given.
Result(op, kind, type) == [op |-> op, kind |-> kind, type |-> type, arg |-> 0]

GradeResult(question_id, kind, type) ==
  [op |-> "grade_answer", kind |-> kind, type |-> type, arg |-> question_id]

\* grade_answer has not run yet.
NoGrading == [Raised EXCEPT !.kind = "pending"]

EmptyUserDb ==
  [sessions |-> 0, completed |-> [sid \in 1..MaxSessions |-> 0],
   stars |-> [sid \in 1..MaxSessions |-> 0], attempts |-> 0]

\* A call of the grounding index and what it returns.
NoCall == [op |-> "none", path |-> "none", query |-> << >>, max_results |-> 0,
           text |-> << >>, max_words |-> 0]
NoOutput == [done |-> FALSE, results |-> << >>, quote |-> << >>]

\* PDFGroundingEngine.__init__, no call made.
IndexAtRest ==
  /\ pdf_cache = EmptyCache
  /\ idx_input = NoCall
  /\ idx_output = NoOutput

\* The threads of the GUI that reach extract_pdf_text, the stream
\* sys.stderr is bound to when the process starts, and the value of a local
\* variable outside its call.
Threads == {"grade_async", "get_answer"}
OriginalStream == <<"stderr", 0>>
NoStream == <<"none", 0>>

\* No thread started.
ThreadsAtRest ==
  /\ sys_stderr = OriginalStream
  /\ closed_streams = {}
  /\ thr_pc = [t \in Threads |-> "idle"]
  /\ original_stderr = [t \in Threads |-> NoStream]
  /\ thr_calls = [t \in Threads |-> 0]

\* __init__
EngineAtRest ==
  /\ eng_pc = "idle"
  /\ current_quiz = NoQuiz
  /\ current_question_idx = 0
  /\ quiz_request = NoRequest
  /\ generated_questions = << >>
  /\ current_user_id = 0
  /\ current_session_id = 0
  /\ session_total_points = 0
  /\ session_max_points = 0
  /\ user_db = EmptyUserDb
  /\ grader_cache = EmptyCache
  /\ last_result = Result("init", "none", "none")

NoSubmission ==
  /\ sub_question = NoQuestion
  /\ sub_answer = << >>
  /\ sub_response = GradeResponse("none", NoNum, "absent")
  /\ sub_result = NoGrading
  /\ sub_calls = 0

\* The generator's run-local state when no run is in progress.
GenIdle ==
  /\ gen_pc' = "idle"
  /\ gen_req' = NoRequest.req
  /\ gen_loop' = LoopStart
  /\ questions' = << >>
  /\ seen_questions' = {}
  /\ asked' = << >>
  /\ slot_attempts' = 0

\* The start of question_gen.generate_questions(single_request):
\* num_questions = 1, the other fields as stored.
StartRun(req) ==
  /\ gen_pc' = "topic_loop"
  /\ gen_req' = [req EXCEPT !.num_questions = 1]
  /\ gen_loop' = LoopStart
  /\ questions' = << >>
  /\ seen_questions' = {}
  /\ asked' = << >>
  /\ slot_attempts' = 0

\* The requests generate_quiz is called with: the course is known or not,
\* the note files exist or not.
EngineRequests ==
  { [course_ok |-> c, notes_ok |-> f,
     req |-> [num_questions |-> n, topics |-> <<TopicNLP>>,
              question_types |-> {"mcq_single", "short_answer"}, max_points |-> 10]] :
      c \in BOOLEAN, f \in BOOLEAN, n \in 1..MaxQuestions }

\* A generate_quiz that stores the request and clears the lazy state before
\* it validates the request.
GenerateQuizConfigErrorAfterStore(requests) ==
  /\ eng_pc = "idle"
  /\ \E rq \in requests :
       /\ ~rq.course_ok \/ ~rq.notes_ok
       /\ quiz_request' = [set |-> TRUE, req |-> rq.req]
       /\ last_result' = Result("generate_quiz", "error",
                                IF ~rq.course_ok THEN "invalid_course" ELSE "missing_notes")
  /\ generated_questions' = << >>
  /\ current_question_idx' = 0
  /\ session_total_points' = 0
  /\ session_max_points' = 0
  /\ UNCHANGED <<eng_pc, current_quiz, current_user_id, current_session_id, user_db,
                 grader_cache>>
  /\ UNCHANGED <<pdf_files, genVars, subVars, idxVars, thrVars>>

\* generate_quiz, request validation (lines 86-114): a configuration error.
GenerateQuizConfigError(requests) ==
  /\ eng_pc = "idle"
  /\ \E rq \in requests :
       /\ ~rq.course_ok \/ ~rq.notes_ok
       /\ last_result' = Result("generate_quiz", "error",
                                IF ~rq.course_ok THEN "invalid_course" ELSE "missing_notes")
  /\ UNCHANGED <<eng_pc, current_quiz, current_question_idx, quiz_request,
                 generated_questions, current_user_id, current_session_id,
                 session_total_points, session_max_points, user_db, grader_cache>>
  /\ UNCHANGED <<pdf_files, genVars, subVars, idxVars, thrVars>>

\* generate_quiz up to the call of _generate_next_question (lines 116-148).
GenerateQuizBegin(requests) ==
  /\ eng_pc = "idle"
  /\ current_user_id # 0 => user_db.sessions < MaxSessions
  /\ \E rq \in requests :
       /\ rq.course_ok /\ rq.notes_ok
       /\ quiz_request' = [set |-> TRUE, req |-> rq.req]
       /\ StartRun(rq.req)
  /\ generated_questions' = << >>
  /\ current_question_idx' = 0
  /\ session_total_points' = 0
  /\ session_max_points' = 0
  /\ IF current_user_id # 0
       THEN /\ user_db' = [user_db EXCEPT !.sessions = user_db.sessions + 1]
            /\ current_session_id' = user_db.sessions + 1
       ELSE UNCHANGED <<user_db, current_session_id>>
  /\ eng_pc' = "generate_quiz"
  /\ last_result' = Result("generate_quiz", "pending", "none")
  /\ UNCHANGED <<current_quiz, current_user_id, grader_cache>>
  /\ UNCHANGED <<pdf_files, gen_cache, subVars, idxVars, thrVars>>

\* _generate_next_question's result (lines 323-329): the first question of
\* the run, renumbered.
NextGenerated ==
  IF questions # << >>
    THEN [ok |-> TRUE, q |-> [questions[1] EXCEPT !.id = Len(generated_questions) + 1]]
    ELSE NoQuestion

\* generate_quiz from the return of _generate_next_question (lines 150-171),
\* or the exception generate_questions let out.
GenerateQuizReturn ==
  /\ eng_pc = "generate_quiz"
  /\ gen_pc \in {"done", "raised"}
  /\ IF gen_pc = "raised"
       THEN /\ last_result' = Result("generate_quiz", "raised", "none")
            /\ UNCHANGED <<generated_questions, current_quiz>>
       ELSE IF NextGenerated.ok
         THEN /\ generated_questions' = Append(generated_questions, NextGenerated.q)
              /\ current_quiz' = [set |-> TRUE, questions |-> <<NextGenerated.q>>,
                                  question_count |-> quiz_request.req.num_questions]
              /\ last_result' = Result("generate_quiz", "quiz", "none")
         ELSE /\ last_result' = Result("generate_quiz", "error", "generation_failed")
              /\ UNCHANGED <<generated_questions, current_quiz>>
  /\ eng_pc' = "idle"
  /\ GenIdle
  /\ UNCHANGED <<current_question_idx, quiz_request, current_user_id, current_session_id,
                 session_total_points, session_max_points, user_db, grader_cache>>
  /\ UNCHANGED <<pdf_files, gen_cache, subVars, idxVars, thrVars>>

\* A limit test that always lets next_question generate.
UnderLimitAlways(generated, total_requested) == TRUE

\* len(self.generated_questions) < total_requested (line 264)
UnderLimit(generated, total_requested) == Len(generated) < total_requested

\* next_question up to its return or to the call of _generate_next_question.
\* The cursor is followed up to MaxCursor, and a quiz that an interrupted
\* generate_quiz left behind up to MaxQuestions + 1 questions.
NextQuestionBegin ==
  /\ eng_pc = "idle"
  /\ current_question_idx < MaxCursor
  /\ Len(current_quiz.questions) <= MaxQuestions
  /\ IF ~current_quiz.set \/ ~quiz_request.set
       THEN /\ last_result' = Result("next_question", "none", "no_quiz")
            /\ UNCHANGED <<eng_pc, current_question_idx, genVars>>
       ELSE /\ current_question_idx' = current_question_idx + 1
            /\ IF current_question_idx + 1 >= Len(generated_questions)
                 THEN IF UnderLimit(generated_questions, quiz_request.req.num_questions)
                        THEN /\ StartRun(quiz_request.req)
                             /\ eng_pc' = "next_question"
                             /\ last_result' = Result("next_question", "pending", "none")
                             /\ UNCHANGED gen_cache
                        ELSE /\ last_result' = Result("next_question", "none", "limit")
                             /\ UNCHANGED <<eng_pc, genVars>>
                 ELSE /\ last_result' =
                           Result("next_question",
                                  IF current_question_idx + 1 < Len(current_quiz.questions)
                                    THEN "question" ELSE "none", "current")
                      /\ UNCHANGED <<eng_pc, genVars>>
  /\ UNCHANGED <<current_quiz, quiz_request, generated_questions, current_user_id,
                 current_session_id, session_total_points, session_max_points, user_db,
                 grader_cache>>
  /\ UNCHANGED <<pdf_files, subVars, idxVars, thrVars>>

\* next_question from the return of _generate_next_question (lines 268-275).
NextQuestionReturn ==
  /\ eng_pc = "next_question"
  /\ gen_pc \in {"done", "raised"}
  /\ IF gen_pc = "raised"
       THEN /\ last_result' = Result("next_question", "raised", "none")
            /\ UNCHANGED <<generated_questions, current_quiz>>
       ELSE IF NextGenerated.ok
         THEN /\ generated_questions' = Append(generated_questions, NextGenerated.q)
              /\ current_quiz' =
                   [current_quiz EXCEPT
                      !.questions = Append(current_quiz.questions, NextGenerated.q),
                      !.question_count = Len(generated_questions) + 1]
              /\ last_result' = Result("next_question", "question", "generated")
         ELSE /\ last_result' = Result("next_question", "none", "failed")
              /\ UNCHANGED <<generated_questions, current_quiz>>
  /\ eng_pc' = "idle"
  /\ GenIdle
  /\ UNCHANGED <<current_question_idx, quiz_request, current_user_id, current_session_id,
                 session_total_points, session_max_points, user_db, grader_cache>>
  /\ UNCHANGED <<pdf_files, gen_cache, subVars, idxVars, thrVars>>


\* The most star rows the model lets one session collect.
MaxCompletions == 2

\* complete_quiz's star rating of the running totals.
Stars(total, max) ==
  IF max > 0
    THEN IF total * 100 >= 90 * max THEN 5
         ELSE IF total * 100 >= 80 * max THEN 4
         ELSE IF total * 100 >= 70 * max THEN 3
         ELSE IF total * 100 >= 60 * max THEN 2
         ELSE 1
    ELSE 1

\* Whether a call of complete_quiz in this state reaches complete_quiz_session.
Completes == current_session_id # 0 /\ current_user_id # 0

\* user_manager.complete_quiz_session(session_id, stars)
CompleteSession(db, sid, stars) ==
  [db EXCEPT !.completed[sid] = db.completed[sid] + 1, !.stars[sid] = stars]

\* The user manager after complete_quiz.
DbAfterCompleteQuiz ==
  IF Completes
    THEN CompleteSession(user_db, current_session_id,
                         Stars(session_total_points, session_max_points))
    ELSE user_db

CanComplete == Completes => user_db.completed[current_session_id] < MaxCompletions

\* The answers and oracle verdicts the engine model submits.
EngineAnswers == {<<"B">>, <<"w","h","a","t"," ","i","s">>}

EngineGradeResponses ==
  { GradeResponse("none", NoNum, "absent"),
    GradeResponse("dict", NumV(10), "exact") }

\* A lookup that falls back on the first question for an unknown id.
FindQuestionOrFirst(quiz_questions, question_id) ==
  LET hits == {i \in 1..Len(quiz_questions) : quiz_questions[i].id = question_id}
  IN  IF hits = {} THEN (IF quiz_questions = << >> THEN 0 ELSE 1)
      ELSE CHOOSE i \in hits : \A k \in hits : i <= k

\* The first question of the quiz with the submitted id (0: there is none).
FindQuestion(quiz_questions, question_id) ==
  LET hits == {i \in 1..Len(quiz_questions) : quiz_questions[i].id = question_id}
  IN  IF hits = {} THEN 0 ELSE CHOOSE i \in hits : \A k \in hits : i <= k

\* The grader's cache after _grade_open_ended read the pages cited by the
\* question (lines 209-216); the choice scorers read none.
RECURSIVE CacheAfterGrounding(_, _, _)
CacheAfterGrounding(cache, files, grounding) ==
  IF grounding = << >> THEN cache
  ELSE CacheAfterGrounding(CacheAfterExtract(cache, files, Head(grounding).path),
                           files, Tail(grounding))

CacheAfterGrading(cache, files, question) ==
  IF question.type \in {"mcq_single", "mcq_multi"} THEN cache
  ELSE CacheAfterGrounding(cache, files, question.grounding)

\* QuizzerV2.grade_answer
EngineGradeAnswer(answers, responses) ==
  /\ eng_pc = "idle"
  /\ \E question_id \in 0..(MaxQuestions + 1), user_answer \in answers, r \in responses :
       IF ~current_quiz.set
         THEN /\ last_result' = GradeResult(question_id, "error", "no_active_quiz")
              /\ UNCHANGED <<session_total_points, session_max_points, user_db, grader_cache>>
         ELSE LET idx == FindQuestion(current_quiz.questions, question_id)
              IN  IF idx = 0
                    THEN /\ last_result' = GradeResult(question_id, "error", "question_not_found")
                         /\ UNCHANGED <<session_total_points, session_max_points, user_db,
                                        grader_cache>>
                    ELSE LET question == current_quiz.questions[idx]
                             result == GradeAnswer(question, user_answer, r)
                             recorded == current_user_id # 0 /\ current_session_id # 0
                                         /\ result.kind = "grading"
                         IN  /\ recorded => user_db.attempts < MaxAttempts
                             /\ grader_cache' = CacheAfterGrading(grader_cache, pdf_files, question)
                             /\ last_result' = GradeResult(question_id, result.kind, result.decision)
                             /\ IF recorded
                                  THEN /\ session_total_points' =
                                            session_total_points + result.points_awarded
                                       /\ session_max_points' =
                                            session_max_points + result.points_possible
                                       /\ user_db' = [user_db EXCEPT !.attempts = user_db.attempts + 1]
                                  ELSE UNCHANGED <<session_total_points, session_max_points,
                                                   user_db>>
  /\ UNCHANGED <<eng_pc, current_quiz, current_question_idx, quiz_request,
                 generated_questions, current_user_id, current_session_id>>
  /\ UNCHANGED <<pdf_files, genVars, subVars, idxVars, thrVars>>

\* complete_quiz
CompleteQuiz ==
  /\ eng_pc = "idle"
  /\ CanComplete
  /\ user_db' = DbAfterCompleteQuiz
  /\ last_result' = Result("complete_quiz", IF Completes THEN "completed" ELSE "none", "none")
  /\ UNCHANGED <<eng_pc, current_quiz, current_question_idx, quiz_request,
                 generated_questions, current_user_id, current_session_id,
                 session_total_points, session_max_points, grader_cache>>
  /\ UNCHANGED <<pdf_files, genVars, subVars, idxVars, thrVars>>

\* reset_quiz
ResetQuiz ==
  /\ eng_pc = "idle"
  /\ CanComplete
  /\ user_db' = DbAfterCompleteQuiz
  /\ current_quiz' = NoQuiz
  /\ current_question_idx' = 0
  /\ quiz_request' = NoRequest
  /\ generated_questions' = << >>
  /\ current_session_id' = 0
  /\ session_total_points' = 0
  /\ session_max_points' = 0
  /\ last_result' = Result("reset_quiz", "none", "none")
  /\ UNCHANGED <<eng_pc, current_user_id, grader_cache>>
  /\ UNCHANGED <<pdf_files, genVars, subVars, idxVars, thrVars>>

\* login, when the user manager accepts the credentials
Login ==
  /\ eng_pc = "idle"
  /\ current_user_id = 0
  /\ current_user_id' = 1
  /\ last_result' = Result("login", "ok", "none")
  /\ UNCHANGED <<eng_pc, current_quiz, current_question_idx, quiz_request,
                 generated_questions, current_session_id, session_total_points,
                 session_max_points, user_db, grader_cache>>
  /\ UNCHANGED <<pdf_files, genVars, subVars, idxVars, thrVars>>

\* logout: complete_quiz if a session is open, then reset_quiz with the
\* user and the session already cleared.
Logout ==
  /\ eng_pc = "idle"
  /\ current_user_id # 0
  /\ CanComplete
  /\ user_db' = DbAfterCompleteQuiz
  /\ current_user_id' = 0
  /\ current_session_id' = 0
  /\ current_quiz' = NoQuiz
  /\ current_question_idx' = 0
  /\ quiz_request' = NoRequest
  /\ generated_questions' = << >>
  /\ session_total_points' = 0
  /\ session_max_points' = 0
  /\ last_result' = Result("logout", "none", "none")
  /\ UNCHANGED <<eng_pc, grader_cache>>
  /\ UNCHANGED <<pdf_files, genVars, subVars, idxVars, thrVars>>

\* The oracle's answers to the engine's question requests.
EngineGenResponses ==
  { GenResponse("none", "absent", AbsentV, AbsentV, AbsentV, AbsentV) }
  \cup
  { GenResponse("items_list", ty, qu, StrV(AnswerB), ListV(ChoicesABCD), AbsentV) :
      ty \in {"mcq", "short"}, qu \in {IntV, StrV(Prompt1), StrV(Prompt1Variant)} }

InitEngine ==
  /\ pdf_files \in EngineCorpora
  /\ gen_cache = EmptyCache
  /\ gen_pc = "idle"
  /\ gen_req = NoRequest.req
  /\ gen_loop = LoopStart
  /\ questions = << >>
  /\ seen_questions = {}
  /\ asked = << >>
  /\ slot_attempts = 0
  /\ EngineAtRest
  /\ IndexAtRest
  /\ ThreadsAtRest
  /\ NoSubmission

NextEngine ==
  \/ GenerateQuizConfigError(EngineRequests)
  \/ GenerateQuizBegin(EngineRequests)
  \/ GenerateQuizReturn
  \/ NextQuestionBegin
  \/ NextQuestionReturn
  \/ EngineGradeAnswer(EngineAnswers, EngineGradeResponses)
  \/ CompleteQuiz
  \/ ResetQuiz
  \/ TopicSearch
  \/ BeginSlot
  \/ TopicAttempt(EngineGenResponses)
  \/ FallbackAttempt(EngineGenResponses)
  \/ FinishRun

\* The engine used by one caller without an account.
SpecEngine == InitEngine /\ [][NextEngine]_vars

\* The engine used with an account: one-question and two-question quizzes on
\* single-choice items, which the oracle may fail to deliver.
SessionCorpora ==
  { [p \in Paths |-> IF p = "a.pdf" THEN Doc(FALSE, NoPages)
                                     ELSE Doc(TRUE, (2 :> TextNLP))] }

SessionRequests ==
  { [course_ok |-> TRUE, notes_ok |-> TRUE,
     req |-> [num_questions |-> n, topics |-> <<TopicNLP>>,
              question_types |-> {"mcq_single"}, max_points |-> 10]] :
      n \in 1..MaxQuestions }
  \cup
  { [course_ok |-> c, notes_ok |-> ~c,
     req |-> [num_questions |-> 1, topics |-> <<TopicNLP>>,
              question_types |-> {"mcq_single"}, max_points |-> 10]] :
      c \in BOOLEAN }

SessionGenResponses ==
  { GenResponse("none", "absent", AbsentV, AbsentV, AbsentV, AbsentV),
    GenResponse("items_list", "mcq", StrV(Prompt1), StrV(AnswerB), ListV(ChoicesABCD),
                AbsentV) }

SessionAnswers == {<<"B">>, <<"C">>}

SessionGradeResponses == { GradeResponse("none", NoNum, "absent") }

InitSession ==
  /\ pdf_files \in SessionCorpora
  /\ gen_cache = EmptyCache
  /\ gen_pc = "idle"
  /\ gen_req = NoRequest.req
  /\ gen_loop = LoopStart
  /\ questions = << >>
  /\ seen_questions = {}
  /\ asked = << >>
  /\ slot_attempts = 0
  /\ EngineAtRest
  /\ IndexAtRest
  /\ ThreadsAtRest
  /\ NoSubmission

NextSession ==
  \/ Login
  \/ Logout
  \/ GenerateQuizConfigError(SessionRequests)
  \/ GenerateQuizBegin(SessionRequests)
  \/ GenerateQuizReturn
  \/ NextQuestionBegin
  \/ NextQuestionReturn
  \/ EngineGradeAnswer(SessionAnswers, SessionGradeResponses)
  \/ CompleteQuiz
  \/ ResetQuiz
  \/ TopicSearch
  \/ BeginSlot
  \/ TopicAttempt(SessionGenResponses)
  \/ FallbackAttempt(SessionGenResponses)
  \/ FinishRun

SpecSession == InitSession /\ [][NextSession]_vars

\* ------------------------------------------------------------------------
\* Grading one submission
\* ------------------------------------------------------------------------

CanonicalDotted == <<"a",".","b",".","c",".">>
CanonicalTokens == <<"T","o","k","e","n","s"," ","s","p","l","i","t"," ","w","o","r","d","s">>
TagsTwo == <<TopicNLP, TopicBPE>>

\* The oracle items the graded questions are built from.
GradeItems ==
  { GenResponse("items_list", "mcq", StrV(Prompt1), a, ListV(ChoicesABCD), AbsentV) :
      a \in {StrV(AnswerB), StrV(<<"b"," ">>), StrV(<<" ">>), AbsentV, IntV,
             ListV(<< >>), ListV(<<<<"A">>, <<"C">>>>)} }
  \cup
  { GenResponse("items_list", "short", StrV(Prompt2), a, AbsentV, t) :
      a \in {StrV(CanonicalDotted), StrV(CanonicalTokens), AbsentV,
             ListV(<<<<"T","o","k","e","n","s">>, <<"w","o","r","d","s">>>>)},
      t \in {AbsentV, ListV(TagsTwo)} }

\* The questions the generator emits for them.
EmittedQuestions(max_points) ==
  UNION { { GenerateSingleQuestion(r, qtype, 1, 1, "a.pdf", max_points).q :
              qtype \in {t \in {"mcq_single", "short_answer"} :
                           GenerateSingleQuestion(r, t, 1, 1, "a.pdf", max_points).ok} } :
          r \in GradeItems }

\* The questions grade_answer is called with: the emitted ones for 10 and
\* for 3 points per question, and the open ones of 10 points without a
\* point_breakdown.
GradeQuestions ==
  EmittedQuestions(10) \cup EmittedQuestions(3)
  \cup { [q EXCEPT !.answer_key.point_breakdown = << >>] :
           q \in {e \in EmittedQuestions(10) : e.type = "short_answer"} }

GradeAnswers ==
  { << >>, <<" ">>, <<"b">>, <<"(","b",")">>, <<"C",",","A">>, CanonicalDotted, <<"o","k","!","!","?"," ">>,
    <<"t","o","k","e","n","s"," ","s","p","l","i","t">>,
    <<"T","O","K","E","N","S"," ","a","n","d"," ","w","o","r","d","s","."," ","s","p","l","i","t">> }

GradeVerdicts ==
  {"absent", "not_a_string", "exact", "semantically_correct", "partially_correct",
   "incorrect", "unknown"}

\* The oracle's answers to a grading request.
GradeResponses ==
  { GradeResponse(sh, NoNum, "absent") : sh \in {"raise", "none", "empty", "error", "list"} }
  \cup
  { GradeResponse("dict", sc, v) :
      sc \in {NoNum, BadNum, NumV(0), NumV(5), NumV(7), NumV(10), NumV(15), NumV(-5)},
      v \in GradeVerdicts }

GradeCorpus ==
  [p \in Paths |-> IF p = "a.pdf" THEN Doc(TRUE, (1 :> TextNLP) @@ (2 :> TextBPE))
                                   ELSE Doc(TRUE, (1 :> TextBPE))]

InitGrade ==
  /\ pdf_files = GradeCorpus
  /\ gen_cache = EmptyCache
  /\ gen_pc = "idle"
  /\ gen_req = NoRequest.req
  /\ gen_loop = LoopStart
  /\ questions = << >>
  /\ seen_questions = {}
  /\ asked = << >>
  /\ slot_attempts = 0
  /\ EngineAtRest
  /\ IndexAtRest
  /\ ThreadsAtRest
  /\ sub_question \in GradeQuestions
  /\ sub_answer \in GradeAnswers
  /\ sub_response \in GradeResponses
  /\ sub_result = NoGrading
  /\ sub_calls = 0

\* grader.grade_answer(question, user_answer)
Grade ==
  /\ sub_result.kind = "pending"
  /\ sub_result' = GradeAnswer(sub_question, sub_answer, sub_response)
  /\ sub_calls' = OracleCalls(sub_question)
  /\ grader_cache' = CacheAfterGrading(grader_cache, pdf_files, sub_question)
  /\ UNCHANGED <<sub_question, sub_answer, sub_response>>
  /\ UNCHANGED <<eng_pc, current_quiz, current_question_idx, quiz_request,
                 generated_questions, current_user_id, current_session_id,
                 session_total_points, session_max_points, user_db, last_result>>
  /\ UNCHANGED <<pdf_files, genVars, idxVars, thrVars>>

NextGrade == Grade

SpecGrade == InitGrade /\ [][NextGrade]_vars

\* ------------------------------------------------------------------------
\* Grading one multi-choice submission
\* ------------------------------------------------------------------------

ChoicesABCDE == Append(ChoicesABCD, <<"E",":","v">>)

\* A question of type mcq_multi as grade_answer reads it.
MultiQuestion(correct, options, max_points) ==
  [id |-> 1,
   type |-> "mcq_multi",
   prompt |-> StrV(Prompt1),
   grounding |-> <<[path |-> "a.pdf", page |-> 1]>>,
   options |-> options,
   answer_key |-> [correct |-> ListV(correct), canonical_answer |-> << >>,
                   point_breakdown |-> << >>, max_points |-> max_points]]

MultiCorrect ==
  { << >>, <<<<"A">>, <<"C">>>>, <<<<"A">>, <<"B">>>>, <<<<"a"," ">>, <<" ","b">>, <<"C">>>>,
    <<<<"A">>, <<"B">>, <<"C">>, <<"D">>>>, <<<<"D">>>> }

MultiMaxPoints == {0, 9, 10}

MultiQuestions ==
  { MultiQuestion(c, o, m) :
      c \in MultiCorrect, o \in {<< >>, ChoicesABCD, ChoicesABCDE}, m \in MultiMaxPoints }

MultiAnswers ==
  { << >>, <<"A",",","C">>, <<"A",",","B">>, <<"a",","," ","b"," ",",","d">>,
    <<"B",",","D">>, <<"A",",","C",",","E">>, <<"A",",","B",",","C",",","D">>,
    <<"D",",","1",",",",","e","x">>, <<"A",",","B",",","C">> }

InitMulti ==
  /\ pdf_files = GradeCorpus
  /\ gen_cache = EmptyCache
  /\ gen_pc = "idle"
  /\ gen_req = NoRequest.req
  /\ gen_loop = LoopStart
  /\ questions = << >>
  /\ seen_questions = {}
  /\ asked = << >>
  /\ slot_attempts = 0
  /\ EngineAtRest
  /\ IndexAtRest
  /\ ThreadsAtRest
  /\ sub_question \in MultiQuestions
  /\ sub_answer \in MultiAnswers
  /\ sub_response = GradeResponse("none", NoNum, "absent")
  /\ sub_result = NoGrading
  /\ sub_calls = 0

NextMulti == Grade

SpecMulti == InitMulti /\ [][NextMulti]_vars

\* ------------------------------------------------------------------------
\* One generate_questions run
\* ------------------------------------------------------------------------

InitGen ==
  /\ pdf_files \in Corpora
  /\ gen_cache = EmptyCache
  /\ gen_pc = "topic_loop"
  /\ gen_req \in GenRequests
  /\ gen_loop = LoopStart
  /\ questions = << >>
  /\ seen_questions = {}
  /\ asked = << >>
  /\ slot_attempts = 0
  /\ EngineAtRest
  /\ IndexAtRest
  /\ ThreadsAtRest
  /\ NoSubmission

NextGen ==
  \/ TopicSearch
  \/ BeginSlot
  \/ TopicAttempt(GenResponses)
  \/ FallbackAttempt(GenResponses)
  \/ FinishRun

SpecGen == InitGen /\ [][NextGen]_vars

FairSpecGen == SpecGen /\ WF_vars(NextGen)

\* ------------------------------------------------------------------------
\* One generate_questions run for a single open question
\* ------------------------------------------------------------------------

TagsThree == <<TopicNLP, TopicBPE, TopicGeneral>>

\* max_points_per_question of the request
RubricMaxPoints == {0, 1, 3, 7, 10, 25}

RubricRequests ==
  { [num_questions |-> 1, topics |-> ts, question_types |-> {"short_answer"},
     max_points |-> m] :
      ts \in {<<TopicNLP>>, << >>}, m \in RubricMaxPoints }

\* The oracle's items differ in their tags, the concepts of the rubric.
RubricResponses ==
  { GenResponse("none", "absent", AbsentV, AbsentV, AbsentV, AbsentV) }
  \cup
  { GenResponse("items_list", "short", StrV(Prompt1), StrV(CanonicalTokens), AbsentV, t) :
      t \in {AbsentV, ListV(<< >>), ListV(<<TopicNLP>>), ListV(TagsTwo), ListV(TagsThree)} }

InitRubric ==
  /\ pdf_files = GradeCorpus
  /\ gen_cache = EmptyCache
  /\ gen_pc = "topic_loop"
  /\ gen_req \in RubricRequests
  /\ gen_loop = LoopStart
  /\ questions = << >>
  /\ seen_questions = {}
  /\ asked = << >>
  /\ slot_attempts = 0
  /\ EngineAtRest
  /\ IndexAtRest
  /\ ThreadsAtRest
  /\ NoSubmission

NextRubric ==
  \/ TopicSearch
  \/ BeginSlot
  \/ TopicAttempt(RubricResponses)
  \/ FallbackAttempt(RubricResponses)
  \/ FinishRun

SpecRubric == InitRubric /\ [][NextRubric]_vars




\* ------------------------------------------------------------------------
\* The grounding index called directly: one search_content or one
\* extract_quote call
\* ------------------------------------------------------------------------

IndexTexts == { <<"A","b"," ","c">>, <<"b">>, <<"x","y">> }

\* One readable document of MaxPages pages and one that cannot be read.
IndexCorpora ==
  { [p \in Paths |-> IF p = "a.pdf" THEN Doc(TRUE, pages) ELSE Doc(FALSE, NoPages)] :
      pages \in [1..MaxPages -> IndexTexts] }

IndexQueries ==
  { <<"a","b">>, <<"A","B"," ","c">>, <<"b"," ","b">>, <<"c"," "," ","b">>,
    <<"x","y"," ","b"," ","c">>, << >> }

SearchInputs ==
  { [op |-> "search_content", path |-> p, query |-> q, max_results |-> k,
     text |-> << >>, max_words |-> 0] :
      p \in Paths, q \in IndexQueries, k \in {0, 1, 2, 5} }

\* n times the word w, one space between two.
Words(n, w) ==
  [i \in 1..(IF n = 0 THEN 0 ELSE 2 * n - 1) |-> IF i % 2 = 1 THEN w ELSE " "]

WordLetters == <<"a", "b", "c">>

\* A piece of text: n equal words and what follows them.
Pieces ==
  { [n |-> n, end |-> e] :
      n \in {MinQuoteWords - 1, MinQuoteWords, MinQuoteWords + 1, DefaultMaxWords + 1},
      e \in { <<".", " ">>, <<"!", "\n", " ">>, <<"?", " ">>, <<" ">>, <<".">> } }

\* The pieces one after the other, the words of piece i being letter i.
RECURSIVE TextOf(_, _)
TextOf(ps, i) ==
  IF i > Len(ps) THEN << >>
  ELSE Words(ps[i].n, WordLetters[((i - 1) % Len(WordLetters)) + 1]) \o ps[i].end
       \o TextOf(ps, i + 1)

QuoteTexts == UNION { { TextOf(ps, 1) : ps \in [1..k -> Pieces] } : k \in 1..MaxSentences }

QuoteInputs ==
  { [op |-> "extract_quote", path |-> "none", query |-> << >>, max_results |-> 0,
     text |-> t, max_words |-> m] :
      t \in QuoteTexts, m \in {3, MinQuoteWords, MinQuoteWords + 1, DefaultMaxWords} }

IndexQuoteCorpus == CHOOSE c \in IndexCorpora : TRUE

InitIndex ==
  /\ \/ pdf_files \in IndexCorpora /\ idx_input \in SearchInputs
     \/ pdf_files = IndexQuoteCorpus /\ idx_input \in QuoteInputs
  /\ pdf_cache = EmptyCache
  /\ idx_output = NoOutput
  /\ gen_cache = EmptyCache
  /\ gen_pc = "idle"
  /\ gen_req = NoRequest.req
  /\ gen_loop = LoopStart
  /\ questions = << >>
  /\ seen_questions = {}
  /\ asked = << >>
  /\ slot_attempts = 0
  /\ EngineAtRest
  /\ ThreadsAtRest
  /\ NoSubmission

\* grounding.search_content(pdf_path, query, max_results)
SearchContentCall ==
  /\ idx_input.op = "search_content"
  /\ ~idx_output.done
  /\ idx_output' =
       [done |-> TRUE, quote |-> << >>,
        results |-> SearchContent(ExtractPdfText(pdf_cache, pdf_files, idx_input.path),
                                  idx_input.path, idx_input.query, idx_input.max_results)]
  /\ pdf_cache' = CacheAfterExtract(pdf_cache, pdf_files, idx_input.path)
  /\ UNCHANGED <<pdf_files, idx_input, genVars, engVars, subVars, thrVars>>

\* grounding.extract_quote(text, max_words)
ExtractQuoteCall ==
  /\ idx_input.op = "extract_quote"
  /\ ~idx_output.done
  /\ idx_output' = [done |-> TRUE, results |-> << >>,
                    quote |-> ExtractQuote(idx_input.text, idx_input.max_words)]
  /\ UNCHANGED <<pdf_files, pdf_cache, idx_input, genVars, engVars, subVars, thrVars>>

NextIndex ==
  \/ SearchContentCall
  \/ ExtractQuoteCall

SpecIndex == InitIndex /\ [][NextIndex]_vars


\* ------------------------------------------------------------------------
\* extract_pdf_text on uncached paths, called from two threads
\* ------------------------------------------------------------------------

\* original_stderr = sys.stderr (line 76): the call begins, its path not in
\* the cache of the thread's index.
SaveStderr(t) ==
  /\ thr_pc[t] = "idle"
  /\ thr_calls[t] < MaxCalls
  /\ thr_calls' = [thr_calls EXCEPT ![t] = thr_calls[t] + 1]
  /\ original_stderr' = [original_stderr EXCEPT ![t] = sys_stderr]
  /\ thr_pc' = [thr_pc EXCEPT ![t] = "saved"]
  /\ UNCHANGED <<sys_stderr, closed_streams>>
  /\ UNCHANGED <<pdf_files, genVars, engVars, subVars, idxVars>>

\* sys.stderr = open(os.devnull, 'w') (line 80): a stream of its own for
\* every call.
RedirectStderr(t) ==
  /\ thr_pc[t] = "saved"
  /\ sys_stderr' = <<t, thr_calls[t]>>
  /\ thr_pc' = [thr_pc EXCEPT ![t] = "redirected"]
  /\ UNCHANGED <<closed_streams, original_stderr, thr_calls>>
  /\ UNCHANGED <<pdf_files, genVars, engVars, subVars, idxVars>>

\* The file is opened and its pages are read (lines 81-89), with or without
\* an exception: the finally block is next.
ReadPages(t) ==
  /\ thr_pc[t] = "redirected"
  /\ thr_pc' = [thr_pc EXCEPT ![t] = "read"]
  /\ UNCHANGED <<sys_stderr, closed_streams, original_stderr, thr_calls>>
  /\ UNCHANGED <<pdf_files, genVars, engVars, subVars, idxVars>>

\* sys.stderr.close() (line 91): closes the stream sys.stderr is bound to
\* now.
CloseStderr(t) ==
  /\ thr_pc[t] = "read"
  /\ closed_streams' = closed_streams \cup {sys_stderr}
  /\ thr_pc' = [thr_pc EXCEPT ![t] = "closed"]
  /\ UNCHANGED <<sys_stderr, original_stderr, thr_calls>>
  /\ UNCHANGED <<pdf_files, genVars, engVars, subVars, idxVars>>

\* sys.stderr = original_stderr (line 92), and the call returns.
RestoreStderr(t) ==
  /\ thr_pc[t] = "closed"
  /\ sys_stderr' = original_stderr[t]
  /\ original_stderr' = [original_stderr EXCEPT ![t] = NoStream]
  /\ thr_pc' = [thr_pc EXCEPT ![t] = "idle"]
  /\ UNCHANGED <<closed_streams, thr_calls>>
  /\ UNCHANGED <<pdf_files, genVars, engVars, subVars, idxVars>>

InitThreads ==
  /\ pdf_files \in EngineCorpora
  /\ gen_cache = EmptyCache
  /\ gen_pc = "idle"
  /\ gen_req = NoRequest.req
  /\ gen_loop = LoopStart
  /\ questions = << >>
  /\ seen_questions = {}
  /\ asked = << >>
  /\ slot_attempts = 0
  /\ EngineAtRest
  /\ IndexAtRest
  /\ ThreadsAtRest
  /\ NoSubmission

NextThreads ==
  \E t \in Threads :
    \/ SaveStderr(t)
    \/ RedirectStderr(t)
    \/ ReadPages(t)
    \/ CloseStderr(t)
    \/ RestoreStderr(t)

SpecThreads == InitThreads /\ [][NextThreads]_vars


\* ------------------------------------------------------------------------
\* Properties
\* ------------------------------------------------------------------------

\* C1: between two calls, an engine with an active quiz has
\* cursor <= number of generated questions <= requested num_questions.
C1_CursorWithinGenerated ==
  (eng_pc = "idle" /\ current_quiz.set /\ quiz_request.set) =>
    /\ current_question_idx <= Len(generated_questions)
    /\ Len(generated_questions) <= quiz_request.req.num_questions

\* C2: a generate_questions run gives a slot at most max_retries attempts in
\* a row and then leaves it, so no loop of the run keeps failing beyond that.
C2_AttemptsBounded == slot_attempts <= MaxRetries

\* C3: a generate_quiz whose generation run has failed more than max_retries
\* times in a row without any question has its run ended, so that
\* generate_quiz returns generation_failed.
C3_FailedGenerationReturns ==
  (eng_pc = "generate_quiz" /\ questions = << >> /\ slot_attempts > MaxRetries) =>
    gen_pc = "done"

\* C4: no two questions of the session's questions[] have prompts that are
\* equal after lower-casing and trimming.
C4_SessionPromptsDistinct ==
  \A i, j \in 1..Len(current_quiz.questions) :
    i < j => Strip(Lower(current_quiz.questions[i].prompt.val))
               # Strip(Lower(current_quiz.questions[j].prompt.val))

\* C5: in one generate_questions run every accepted question has a string
\* prompt of at least 10 characters after trimming, and no two accepted
\* prompts are equal after lower-casing and trimming.
C5_RunPromptsValidDistinct ==
  /\ \A i \in 1..Len(questions) :
       /\ questions[i].prompt.kind = "str"
       /\ Len(Strip(Lower(questions[i].prompt.val))) >= MinPromptLen
       /\ Len(questions[i].prompt.val) >= MinPromptLen
  /\ \A i, j \in 1..Len(questions) :
       i < j => Strip(Lower(questions[i].prompt.val))
                  # Strip(Lower(questions[j].prompt.val))

\* C5 witness: a run that accepted two questions, the first one with a
\* prompt that differs from another offered prompt by case and blanks only.
C5_TwoAccepted ==
  /\ gen_pc = "done"
  /\ Len(questions) = 2
  /\ questions[1].prompt = StrV(Prompt1Variant)
  /\ questions[2].prompt = StrV(Prompt2)

\* C6: every question a generate_questions run emits has the type that was
\* chosen for its slot.
C6_EmittedTypeIsRequested ==
  \A i \in 1..Len(questions) : questions[i].type = asked[i].qtype

\* C7: a grade_answer call without an active quiz returns no_active_quiz, one
\* with an id that is not in questions[] returns question_not_found, and a
\* call that returns an error leaves the question list, the cursor, the
\* stored request, the point totals and the recorded attempts as they were.
C7_LookupErrorsKeepSession ==
  [][last_result'.op = "grade_answer" =>
       /\ ~current_quiz.set =>
            (last_result'.kind = "error" /\ last_result'.type = "no_active_quiz")
       /\ (/\ current_quiz.set
           /\ \A i \in 1..Len(current_quiz.questions) :
                current_quiz.questions[i].id # last_result'.arg) =>
            (last_result'.kind = "error" /\ last_result'.type = "question_not_found")
       /\ last_result'.kind = "error" =>
            UNCHANGED <<current_quiz, generated_questions, current_question_idx,
                        quiz_request, session_total_points, session_max_points,
                        user_db>>]_vars

\* C7 witness: a logged-in session with a recorded attempt in which
\* grade_answer has just answered question_not_found.
C7_UnknownIdInSession ==
  /\ last_result.op = "grade_answer"
  /\ last_result.type = "question_not_found"
  /\ current_user_id # 0
  /\ current_session_id # 0
  /\ session_max_points > 0
  /\ user_db.attempts > 0

\* C8: grade_answer on a question of the quiz returns a Grading: it does
\* not raise.
C8_AlwaysAGrading == sub_result.kind \in {"pending", "grading"}

\* C9: an open-ended submission whose answer has fewer than 5 characters
\* left after removing . , ! ? and surrounding whitespace gets 0 points,
\* decision incorrect and every criterion unmet.
C9_ShortAnswerScoresZero ==
  (/\ sub_result.kind = "grading"
   /\ sub_question.type \notin {"mcq_single", "mcq_multi"}
   /\ Len(Strip(RemoveChars(Strip(sub_answer), {".", ",", "!", "?"}))) < 5) =>
    /\ sub_result.points_awarded = 0
    /\ sub_result.decision = "incorrect"
    /\ \A i \in 1..Len(sub_result.checks) : ~sub_result.checks[i]

\* The oracle gave no verdict structure: the call raised, returned nothing,
\* an error record, a non-object, or an object without score and verdict or
\* with a score that is no number or a verdict that is no string.
NotAVerdict(r) ==
  \/ r.shape \in {"raise", "none", "empty", "error", "list"}
  \/ r.shape = "dict" /\ r.score.kind # "num"
  \/ r.shape = "dict" /\ r.verdict \in {"absent", "not_a_string"}

\* C10: when the oracle gives no verdict structure for an open-ended
\* submission, it is called once and the Grading is the keyword-overlap
\* fallback with both guard flags false.
C10_FallbackOnBadOracle ==
  (/\ sub_result.kind = "grading"
   /\ sub_question.type \notin {"mcq_single", "mcq_multi"}
   /\ NotAVerdict(sub_response)) =>
    /\ sub_calls = 1
    /\ sub_result = FallbackGrading(sub_answer, sub_question.answer_key.canonical_answer)
    /\ ~sub_result.false_positive_guard
    /\ ~sub_result.false_negative_guard


\* C11: for a multi-choice question and any answer, the score ratio of
\* _grade_mcq_multi lies in [0, 1] and the points awarded lie between 0 and
\* the question's max_points.
C11_MultiScoreClamped ==
  sub_result.kind = "grading" =>
    LET ratio == ScoreRatio(ChoiceCounts(sub_question, sub_answer))
    IN  /\ 0 <= ratio.num /\ ratio.num <= ratio.den
        /\ ratio.num = 0 => ratio.dev >= 0
        /\ ratio.num = ratio.den => ratio.dev <= 0
        /\ 0 <= sub_result.points_awarded
        /\ sub_result.points_awarded <= sub_question.answer_key.max_points

\* C11's case: a graded answer whose penalty exceeds its credit, so that the
\* difference of the two ratios is negative before it is clamped.
C11_PenaltyExceedsCredit ==
  LET counts == ChoiceCounts(sub_question, sub_answer)
  IN  /\ sub_result.kind = "grading"
      /\ counts.nc > 0 /\ counts.ni > 0
      /\ counts.correct_chosen * counts.ni < counts.incorrect_chosen * counts.nc
      /\ sub_question.answer_key.max_points > 0
      /\ sub_result.points_awarded = 0

\* The reference formula of C12 in exact arithmetic: the numerator of
\* clamp(|U n C|/|C| - |U n I|/|I|, 0, 1) over the denominator den.
ReferenceDen(counts) ==
  IF counts.nc = 0 THEN 1 ELSE IF counts.ni = 0 THEN counts.nc ELSE counts.nc * counts.ni

ReferenceNum(counts) ==
  IF counts.nc = 0 THEN 0
  ELSE IF counts.ni = 0 THEN counts.correct_chosen
  ELSE Max(0, Min(counts.nc * counts.ni,
                  counts.correct_chosen * counts.ni - counts.incorrect_chosen * counts.nc))

\* C12: the grading of a multi-choice answer is the reference formula's:
\* points = round(ratio * max_points), correct iff ratio >= 0.9,
\* partially_correct iff 0.4 <= ratio < 0.9, incorrect otherwise, for
\* ratio = clamp(|U n C|/|C| - |U n I|/|I|, 0, 1).
C12_MultiEqualsReference ==
  sub_result.kind = "grading" =>
    LET counts == ChoiceCounts(sub_question, sub_answer)
        num == ReferenceNum(counts)
        den == ReferenceDen(counts)
    IN  /\ sub_result.points_awarded =
             RoundHalfEven(num * sub_question.answer_key.max_points, den)
        /\ sub_result.decision =
             (IF 10 * num >= 9 * den THEN "correct"
              ELSE IF 10 * num >= 4 * den THEN "partially_correct"
              ELSE "incorrect")


\* The first alphabetic character of a string, uppercased; empty when the
\* string has no letter.
FirstAlpha(s) ==
  LET letters == SelectSeq(Upper(s), IsAlpha)
  IN  IF letters = << >> THEN << >> ELSE <<letters[1]>>

\* The first character of a string once trimmed and uppercased; empty for a
\* blank string.
FirstChar(s) ==
  LET u == Upper(Strip(s))
  IN  IF u = << >> THEN << >> ELSE <<u[1]>>

C14_RubricSumsToMaxPoints ==
  \A i \in 1..Len(questions) :
    questions[i].type # "mcq_single" =>
      LET rubric == questions[i].answer_key.point_breakdown
          max_points == questions[i].answer_key.max_points
          n == Len(rubric) - 1
      IN  /\ n >= 1
          /\ SeqSum(rubric) = max_points
          /\ \A c \in 1..n : rubric[c] = ((max_points * 7) \div 10) \div n
          /\ rubric[n + 1] = max_points - n * (((max_points * 7) \div 10) \div n)

\* C14's case: an emitted open question with several concepts whose equal
\* shares leave a remainder, which the last criterion takes on top of its
\* own share.
C14_RemainderAbsorbed ==
  \E i \in 1..Len(questions) :
    LET rubric == questions[i].answer_key.point_breakdown
        max_points == questions[i].answer_key.max_points
    IN  /\ questions[i].type = "short_answer"
        /\ Len(rubric) >= 3
        /\ rubric[Len(rubric)] > max_points - (max_points * 7) \div 10


\* C15: every question the generator emits carries exactly one grounding
\* citation, and the cited page is a key of the page map extract_pdf_text
\* gives for the cited path, on the topic path and on the random-page path.
C15_OneCitationOfAnExistingPage ==
  \A i \in 1..Len(questions) :
    LET grounding == questions[i].grounding
    IN  /\ Len(grounding) = 1
        /\ grounding[1].path \in Paths
        /\ grounding[1].page \in
             DOMAIN ExtractPdfText(gen_cache, pdf_files, grounding[1].path)

\* C15's case: one run emitted a question for a topic passage and one for a
\* random page, and one of them cites page 2 of a document without a page 1.
C15_TopicAndFallbackCited ==
  /\ \E i \in 1..Len(asked) : asked[i].phase = "topic"
  /\ \E i \in 1..Len(asked) : asked[i].phase = "fallback"
  /\ \E i \in 1..Len(questions) :
       /\ questions[i].grounding[1].page = 2
       /\ 1 \notin DOMAIN ExtractPdfText(gen_cache, pdf_files, questions[i].grounding[1].path)


\* C16: lazy generation never runs ahead of the cursor. The generated list
\* grows by one question at a time, only when the cursor the call leaves has
\* reached the end of the list as it was and fewer questions than requested
\* were generated; in every state at most cursor + 1 questions are generated.
C16_NeverRunsAhead ==
  /\ [](Len(generated_questions) <= current_question_idx + 1)
  /\ [][Len(generated_questions') > Len(generated_questions) =>
          /\ Len(generated_questions') = Len(generated_questions) + 1
          /\ current_question_idx' >= Len(generated_questions)
          /\ Len(generated_questions) < quiz_request.req.num_questions
          /\ last_result'.op \in {"generate_quiz", "next_question"}
          /\ last_result'.op = "generate_quiz" => Len(generated_questions) = 0]_vars

\* C16's case: next_question generated the second of two requested questions
\* and a further call found the limit reached.
C16_LimitReached ==
  /\ last_result = Result("next_question", "none", "limit")
  /\ quiz_request.req.num_questions = 2
  /\ Len(generated_questions) = 2
  /\ current_question_idx = 2


C18_SessionIdsDistinct ==
  \A i, j \in 1..Len(current_quiz.questions) :
    i < j => current_quiz.questions[i].id # current_quiz.questions[j].id


\* C19: a generate_questions run for n >= 1 questions never holds more than
\* n questions, and the response it returns holds exactly n.
C19_ExactlyRequested ==
  /\ Len(questions) <= gen_req.num_questions
  /\ gen_pc = "done" => Len(questions) = gen_req.num_questions

\* C19's case: a run for two questions has returned, one question coming
\* from a topic passage and one from a random page.
C19_TwoReturned ==
  /\ gen_pc = "done"
  /\ gen_req.num_questions = 2
  /\ Len(questions) = 2
  /\ asked[1].phase = "topic"
  /\ asked[2].phase = "fallback"


\* C20: topics are taken round-robin: the i-th question of a run (counting
\* from 0) that is generated for a topic passage is generated for
\* topics[i mod |topics|], and random-page questions come only after the
\* questions for topic passages.
C20_TopicsRoundRobin ==
  /\ \A i \in 1..Len(asked) :
       asked[i].phase = "topic" =>
         asked[i].topic = gen_req.topics[((i - 1) % Len(gen_req.topics)) + 1]
  /\ \A i, j \in 1..Len(asked) :
       (i < j /\ asked[i].phase = "fallback") => asked[j].phase = "fallback"

\* C21: each document path is read and parsed at most once per process run:
\* a call for a path that some grounding engine of the process has already
\* parsed is served from the cache, so the grader never parses (fills its
\* cache entry for) a path the question generator has parsed before, and a
\* cached page map is never changed or removed.
C21_ParsedOncePerRun ==
  [][\A p \in Paths :
       /\ (grader_cache'[p].cached /\ ~grader_cache[p].cached) => ~gen_cache[p].cached
       /\ gen_cache[p].cached => gen_cache'[p] = gen_cache[p]
       /\ grader_cache[p].cached => grader_cache'[p] = grader_cache[p]]_vars

\* The search_content call that has returned, and the page map it searched.
SearchDone == idx_output.done /\ idx_input.op = "search_content"
SearchedPages == ExtractPdfText(EmptyCache, pdf_files, idx_input.path)
ReturnedPages == {idx_output.results[i].page : i \in 1..Len(idx_output.results)}

\* The distinct lower-cased query tokens found in the lower-cased text.
DistinctHits(query, text) ==
  LET terms == Split(Lower(query))
  IN  Cardinality({t \in {terms[i] : i \in 1..Len(terms)} : IsSubstr(t, Lower(text))})

\* The lower-cased query tokens, each occurrence in the query counted,
\* found in the lower-cased text.
RECURSIVE TermHits(_, _)
TermHits(terms, text) ==
  IF terms = << >> THEN 0
  ELSE (IF IsSubstr(Head(terms), Lower(text)) THEN 1 ELSE 0) + TermHits(Tail(terms), text)

\* C22 (as claimed): the score of a returned page is the number of distinct
\* whitespace-separated, lower-cased query tokens that occur in the
\* lower-cased page text (a repeated token counts once), and, when
\* max_results does not cut the list, a page is returned iff that number
\* is > 0.
C22_ScoreCountsDistinctTokens ==
  SearchDone =>
    /\ \A i \in 1..Len(idx_output.results) :
         idx_output.results[i].score =
           DistinctHits(idx_input.query, SearchedPages[idx_output.results[i].page])
    /\ idx_input.max_results >= Cardinality(DOMAIN SearchedPages) =>
         \A p \in DOMAIN SearchedPages :
           p \in ReturnedPages <=> DistinctHits(idx_input.query, SearchedPages[p]) > 0

\* C22 (amended): the score of a returned page is the number of
\* whitespace-separated, lower-cased query tokens, a token counted as often
\* as the query repeats it, that occur in the lower-cased page text; every
\* returned page has a score > 0, and when max_results does not cut the list
\* a page is returned iff its score is > 0.
C22_ScoreCountsQueryTokens ==
  SearchDone =>
    /\ \A i \in 1..Len(idx_output.results) :
         /\ idx_output.results[i].page \in DOMAIN SearchedPages
         /\ idx_output.results[i].score =
              TermHits(Split(Lower(idx_input.query)),
                       SearchedPages[idx_output.results[i].page])
         /\ idx_output.results[i].score > 0
    /\ idx_input.max_results >= Cardinality(DOMAIN SearchedPages) =>
         \A p \in DOMAIN SearchedPages :
           p \in ReturnedPages <=>
             TermHits(Split(Lower(idx_input.query)), SearchedPages[p]) > 0

\* C22 witness: a search whose query repeats a token has returned a page on
\* which the repeated token is counted twice.
C22_RepeatedTokenCounted ==
  /\ SearchDone
  /\ \E i \in 1..Len(idx_output.results) :
       idx_output.results[i].score >
         DistinctHits(idx_input.query, SearchedPages[idx_output.results[i].page])

\* Result a comes before a page of the given score and number in the order
\* of search_content: higher score first, equal scores in page order.
ComesBefore(a, score, page) == a.score > score \/ (a.score = score /\ a.page < page)

\* C23: search_content returns at most max_results results, ordered by
\* score descending with pages of equal score in page order, and every
\* returned result comes before every matching page that is not returned
\* (it is among the max_results best pages under that order).
C23_BestPagesInOrder ==
  SearchDone =>
    LET results == idx_output.results
    IN  /\ Len(results) <= idx_input.max_results
        /\ \A i, j \in 1..Len(results) :
             i < j => ComesBefore(results[i], results[j].score, results[j].page)
        /\ \A i \in 1..Len(results) : \A p \in DOMAIN SearchedPages \ ReturnedPages :
             LET hits == TermHits(Split(Lower(idx_input.query)), SearchedPages[p])
             IN  hits > 0 => ComesBefore(results[i], hits, p)

\* C23 witness: a search has returned max_results pages, two of them with
\* equal scores, and has cut a matching page.
C23_TieAndCut ==
  /\ SearchDone
  /\ Len(idx_output.results) = idx_input.max_results
  /\ \E i, j \in 1..Len(idx_output.results) :
       i < j /\ idx_output.results[i].score = idx_output.results[j].score
  /\ \E p \in DOMAIN SearchedPages \ ReturnedPages :
       TermHits(Split(Lower(idx_input.query)), SearchedPages[p]) > 0

\* The extract_quote call that has returned, the sentences of its text and
\* those with MinQuoteWords..max_words words.
QuoteDone == idx_output.done /\ idx_input.op = "extract_quote"
QuoteSentences == SplitSentences(Strip(CollapseSpaces(idx_input.text)))
WordCount(s) == Len(SplitWords(s))
QuoteFits ==
  {i \in 1..Len(QuoteSentences) :
     /\ MinQuoteWords <= WordCount(QuoteSentences[i])
     /\ WordCount(QuoteSentences[i]) <= idx_input.max_words}

\* C24: whenever a sentence with a word count in [5, max_words] exists,
\* extract_quote returns the shortest such sentence.
C24_ShortestSentence ==
  (QuoteDone /\ QuoteFits # {}) =>
     \E i \in QuoteFits :
       /\ idx_output.quote = Strip(QuoteSentences[i])
       /\ \A k \in QuoteFits :
            WordCount(QuoteSentences[i]) <= WordCount(QuoteSentences[k])

\* C25: every quote extract_quote returns has at most max_words words, and
\* when no sentence has a word count in [5, max_words] the quote is the
\* first max_words words of the text, one space between two, followed by
\* "..." (max_words words exactly when the text has that many).
C25_QuoteBounded ==
  QuoteDone =>
    LET words == SplitWords(idx_input.text)
    IN  /\ WordCount(idx_output.quote) <= idx_input.max_words
        /\ QuoteFits = {} =>
             /\ idx_output.quote =
                  JoinSpace(SubSeq(words, 1, Min(idx_input.max_words, Len(words))))
                  \o Ellipsis
             /\ Len(words) >= idx_input.max_words =>
                  WordCount(idx_output.quote) = idx_input.max_words

\* C25 witness: a text of more than 25 words without a sentence of 5 to 25
\* words has been cut to 25 words and "...".
C25_LongTextCut ==
  /\ QuoteDone
  /\ idx_input.max_words = DefaultMaxWords
  /\ QuoteFits = {}
  /\ WordCount(idx_input.text) > DefaultMaxWords
  /\ WordCount(idx_output.quote) = DefaultMaxWords
  /\ SubSeq(idx_output.quote, Len(idx_output.quote) - 2, Len(idx_output.quote)) = Ellipsis

\* The oracle's response is a usable verdict: an object with a score in
\* [0, 1] and a verdict string.
UsableVerdict(r) ==
  /\ ~NotAVerdict(r)
  /\ r.score.val >= 0
  /\ r.score.val <= 10

\* floor(tenths * max_points / 10) for a score given in tenths
FloorOfScore(tenths, max_points) ==
  CHOOSE k \in -(50 * (max_points + 1))..(50 * (max_points + 1)) :
    10 * k <= tenths * max_points /\ tenths * max_points < 10 * (k + 1)

\* C26: an open-ended grading with a usable oracle verdict and an answer the
\* guard does not catch has the decision the verdict maps to (exact and
\* semantically_correct to correct, partially_correct to partially_correct,
\* incorrect and every other verdict to incorrect),
\* points_awarded = floor(score * maxPoints), and maxPoints the sum of the
\* rubric's point weights, 10 without a rubric.
C26_OracleVerdictMapped ==
  (/\ sub_result.kind = "grading"
   /\ sub_question.type \notin {"mcq_single", "mcq_multi"}
   /\ UsableVerdict(sub_response)
   /\ Len(Strip(RemoveChars(Strip(sub_answer), {".", ",", "!", "?"}))) >= 5) =>
    LET weights == sub_question.answer_key.point_breakdown
        maxPoints == IF weights = << >> THEN 10 ELSE SeqSum(weights)
    IN  /\ sub_result.points_possible = maxPoints
        /\ sub_result.points_awarded = FloorOfScore(sub_response.score.val, maxPoints)
        /\ sub_result.decision =
             (IF sub_response.verdict \in {"exact", "semantically_correct"} THEN "correct"
              ELSE IF sub_response.verdict = "partially_correct" THEN "partially_correct"
              ELSE "incorrect")

\* C26 witness: a question whose rubric weights sum to 3 was graded with
\* score 0.5 and verdict semantically_correct: 1 of 3 points, decision
\* correct.
C26_HalfOfThreePoints ==
  /\ sub_result.kind = "grading"
  /\ sub_question.type \notin {"mcq_single", "mcq_multi"}
  /\ UsableVerdict(sub_response)
  /\ sub_response.score.val = 5
  /\ sub_response.verdict = "semantically_correct"
  /\ sub_question.answer_key.point_breakdown # << >>
  /\ sub_result.points_possible = 3
  /\ sub_result.points_awarded = 1
  /\ sub_result.decision = "correct"

\* C27: every Grading grade_answer returns, whatever the question type and
\* the oracle's response (a score outside [0, 1] included), has
\* 0 <= points_awarded <= points_possible.
C27_PointsWithinPossible ==
  sub_result.kind = "grading" =>
    /\ 0 <= sub_result.points_awarded
    /\ sub_result.points_awarded <= sub_result.points_possible

\* C28: with a logged-in user, whatever generate_quiz, grade_answer,
\* complete_quiz, reset_quiz and logout calls are made, each quiz session is
\* completed at most once: complete_quiz_session is called, and a stars row
\* written, at most one time per session id.
C28_CompletedAtMostOnce ==
  \A sid \in 1..MaxSessions : user_db.completed[sid] <= 1

\* C29: whatever the interleaving of concurrent extract_pdf_text calls on
\* uncached paths, once all calls have returned sys.stderr is the original
\* stream again and the original stream has not been closed.
C29_StderrRestored ==
  (\A t \in Threads : thr_pc[t] = "idle") =>
    /\ sys_stderr = OriginalStream
    /\ OriginalStream \notin closed_streams

\* C30: single-choice grading never returns decision correct for an empty
\* or whitespace-only answer, whatever answer key the generator emitted
\* (a key whose only correct option is the empty string included).
C30_BlankNeverCorrect ==
  (/\ sub_result.kind = "grading"
   /\ sub_question.type = "mcq_single"
   /\ Strip(sub_answer) = << >>) =>
    sub_result.decision # "correct"

====
